---- MODULE Spec2Model ----
(***************************************************************************)
(* The goblin-wars combat core of alexrudy/AoC2018: geometry, sprites,     *)
(* grid, the breadth-first pathfinder with its per-species cache, and the  *)
(* round engine of game/round.rs driven by Game::run.                      *)
(***************************************************************************)
EXTENDS Integers, Sequences, FiniteSets, TLC

\* ------------------------------------------------------------------------
\* Bounds of the model
\* ------------------------------------------------------------------------
\* Battlefields of the game specification are MaxX columns by MaxY rows.
MaxX == 3
MaxY == 2
\* At most MaxSprites sprites are placed, with 1..MaxHP hit points each.
MaxSprites == 3
MaxHP == 2
\* Attack power of a species is drawn from 1..MaxAP.
MaxAP == 2
\* Game::run plays at most MaxRound rounds in the model.
MaxRound == 6
\* Battlefields of the pathfinder specification are PathX by PathY, with at
\* most PathWalls walls and PathSprites sprites.
PathX == 4
PathY == 3
PathWalls == 1
PathSprites == 3
LiveWalls == 1
\* The walls of the maps Map::run is followed on
RunWalls == 2
WoundHP == 12
WoundAP == 12
\* The sprites of the battles that are displayed
ViewSprites == 2
\* The texts given to the builder: lines, and characters of a line
TextLines == 2
TextWidth == 3
\* The inside of the walled maps that are rendered: columns and rows
RenderX == 3
RenderY == 2
\* The rounds of the replay of the example battle
ExampleRounds == 50
\* The stats registered with a SpriteBuilder
MaxStat == 3
\* SpriteBuilder::default: hit points and attack power
DefaultHealth == 200
DefaultAttack == 3
\* Position::max_value() and Position::min_value(), Position being isize, at
\* the width of 32 bits
PositionMax == 2147483647
PositionMin == (0 - PositionMax) - 1

\* ------------------------------------------------------------------------
\* Option<T>: None is the empty set, Some(v) the singleton
\* ------------------------------------------------------------------------
None == {}
Some(v) == {v}
IsSome(o) == o # {}
Unwrap(o) == CHOOSE v \in o : TRUE

\* ------------------------------------------------------------------------
\* geometry: Direction, Point, std::cmp::Ordering
\* ------------------------------------------------------------------------
\* Ordering::reverse
OrdReverse(o) ==
    CASE o = "Less" -> "Greater"
      [] o = "Greater" -> "Less"
      [] OTHER -> "Equal"
\* Ordering::then
OrdThen(a, b) == IF a # "Equal" THEN a ELSE b
\* Ord::cmp on integers
IntCmp(a, b) == IF a < b THEN "Less" ELSE IF a > b THEN "Greater" ELSE "Equal"

\* A variant of Direction::all: the order in which the enum declares them
DirectionAllDeclared == <<"Up", "Down", "Left", "Right">>

\* Direction::all: Up, Left, Right, Down
DirectionAll == <<"Up", "Left", "Right", "Down">>

Point(px, py) == [x |-> px, y |-> py]

\* Point::step
Step(p, d) ==
    CASE d = "Left" -> Point(p.x - 1, p.y)
      [] d = "Right" -> Point(p.x + 1, p.y)
      [] d = "Up" -> Point(p.x, p.y - 1)
      [] d = "Down" -> Point(p.x, p.y + 1)

\* Point::adjacent (goblinwars/src/geometry.rs): up, down, left, right
Adjacent(p) == {Step(p, "Up"), Step(p, "Down"), Step(p, "Left"), Step(p, "Right")}

Abs(n) == IF n < 0 THEN 0 - n ELSE n

\* Point::distance
Distance(p, q) == Abs(p.x - q.x) + Abs(p.y - q.y)

\* impl Ord for Point in the geometry crate: y, then x
PointCmp(p, q) == OrdThen(IntCmp(p.y, q.y), IntCmp(p.x, q.x))

\* Point::reading_order in goblinwars/src/geometry.rs: y, then x, reversed;
\* it is the Ord of that module's Point
ReadingOrder(p, q) == OrdReverse(OrdThen(IntCmp(p.y, q.y), IntCmp(p.x, q.x)))

\* ------------------------------------------------------------------------
\* sprite: Species, Sprite, SpriteStatus
\* ------------------------------------------------------------------------
Species == {"Elf", "Goblin"}

\* Species::is_enemy
SpeciesIsEnemy(a, b) == ~(a = b)

\* Sprite::new; id is an auxiliary name for the sprite (its rank at
\* construction), which the program does not store.
Sprite(sid, species, health, attack) ==
    [id |-> sid, species |-> species, hit_points |-> health, attack_power |-> attack]

\* Sprite::is_enemy
IsEnemy(s, other) == SpeciesIsEnemy(s.species, other.species)

\* A variant of the subtraction: not saturating
PlainSub(a, b) == a - b

\* u32::saturating_sub
SaturatingSub(a, b) == IF a > b THEN a - b ELSE 0

\* Sprite::status
Status(s) ==
    IF s.hit_points = 0
    THEN [alive |-> FALSE, health |-> 0, species |-> s.species]
    ELSE [alive |-> TRUE, health |-> s.hit_points, species |-> s.species]

\* A variant of Sprite::wound: the attack is added to the hit points
WoundAdds(s, attack) == [s EXCEPT !.hit_points = s.hit_points + attack]

\* A variant of Sprite::wound: the hit points are left as they are
WoundNothing(s, attack) == s

\* Sprite::wound: the wounded sprite
Wound(s, attack) == [s EXCEPT !.hit_points = SaturatingSub(s.hit_points, attack)]

\* ------------------------------------------------------------------------
\* sprite::collection::Sprites: a map from Point to Sprite
\* ------------------------------------------------------------------------
\* Sprites::positions
Positions(sprites) == DOMAIN sprites

\* Sprites::get
SpritesGet(sprites, point) ==
    IF point \in DOMAIN sprites THEN Some(sprites[point]) ELSE None

\* Sprites::place (HashMap::insert: an entry at position is replaced)
Place(sprites, position, sprite) ==
    [p \in (DOMAIN sprites) \cup {position} |->
        IF p = position THEN sprite ELSE sprites[p]]

\* HashMap::remove
Remove(sprites, point) == [p \in (DOMAIN sprites) \ {point} |-> sprites[p]]

\* A variant of Sprites::step: the sprite is placed but not removed
SpritesStepNoRemove(sprites, point, direction) ==
    Place(sprites, Step(point, direction), sprites[point])

\* Sprites::step
SpritesStep(sprites, point, direction) ==
    Place(Remove(sprites, point), Step(point, direction), sprites[point])

\* A variant of Sprites::attack: the victim is wounded with its own power
SpritesAttackOwnPower(sprites, aggressor, target) ==
    LET victim == Wound(sprites[target], sprites[target].attack_power)
        wounded == [sprites EXCEPT ![target] = victim]
    IN [sprites |-> IF Status(victim).alive THEN wounded ELSE Remove(wounded, target),
        status |-> Status(victim)]

\* A variant of Sprites::attack: a dead victim is not removed
SpritesAttackKeepsCorpse(sprites, aggressor, target) ==
    LET victim == Wound(sprites[target], sprites[aggressor].attack_power)
    IN [sprites |-> [sprites EXCEPT ![target] = victim], status |-> Status(victim)]

\* Sprites::attack: the sprites after the attack and the victim's status
SpritesAttack(sprites, aggressor, target) ==
    LET power == sprites[aggressor].attack_power
        victim == Wound(sprites[target], power)
        result == Status(victim)
        wounded == [sprites EXCEPT ![target] = victim]
    IN [sprites |-> IF result.alive THEN wounded ELSE Remove(wounded, target),
        status |-> result]

\* Sprites::peek: the sprite at the greatest position of a BinaryHeap<Point>
\* under the Point order of goblinwars/src/geometry.rs
Peek(sprites) ==
    IF DOMAIN sprites = {} THEN None
    ELSE Some(sprites[CHOOSE p \in DOMAIN sprites :
                        \A q \in (DOMAIN sprites) \ {p} : ReadingOrder(p, q) = "Greater"])

\* A variant of Sprites::victorious: the species of the sprite peeked at,
\* whether or not an enemy of it remains
VictoriousUnchecked(sprites) ==
    IF Peek(sprites) = None THEN None ELSE Some(Unwrap(Peek(sprites)).species)

\* Sprites::victorious
Victorious(sprites) ==
    IF Peek(sprites) = None THEN None
    ELSE LET sp == Unwrap(Peek(sprites)).species
         IN IF \E p \in DOMAIN sprites : SpeciesIsEnemy(sprites[p].species, sp)
            THEN None
            ELSE Some(sp)

\* ------------------------------------------------------------------------
\* map: Grid, MapElement, Map
\* ------------------------------------------------------------------------
\* Map: the grid is the set of points recorded as open ground
Map(grid, sprites) == [grid |-> grid, sprites |-> sprites]

\* Grid::get
GridGet(grid, point) == IF point \in grid THEN "Empty" ELSE "Wall"

\* Map::element
Element(map, position) ==
    IF position \in DOMAIN map.sprites
    THEN [sprite |-> TRUE, tile |-> "Empty", species |-> map.sprites[position].species]
    ELSE [sprite |-> FALSE, tile |-> GridGet(map.grid, position), species |-> "Elf"]

\* MapElement::is_empty
ElementIsEmpty(e) == (~e.sprite) /\ e.tile = "Empty"

\* Map::is_occupied
IsOccupied(map, point) == ~ElementIsEmpty(Element(map, point))

\* A variant of the comparator of Map::target: the Point order not reversed
TargetCmpNotReversed(map, a, b) ==
    OrdThen(IntCmp(map.sprites[a].hit_points, map.sprites[b].hit_points),
            ReadingOrder(a, b))

\* The comparator of the sort in Map::target: health, then the reverse of
\* the Point order of goblinwars/src/geometry.rs
TargetCmp(map, a, b) ==
    OrdThen(IntCmp(map.sprites[a].hit_points, map.sprites[b].hit_points),
            OrdReverse(ReadingOrder(a, b)))

\* Map::target
Target(map, location) ==
    IF location \notin DOMAIN map.sprites THEN None
    ELSE LET sprite == map.sprites[location]
             targets == {t \in DOMAIN map.sprites :
                            /\ IsEnemy(sprite, map.sprites[t])
                            /\ Distance(t, location) = 1}
         IN IF targets = {} THEN None
            ELSE Some(CHOOSE t \in targets :
                        \A u \in targets \ {t} : TargetCmp(map, t, u) = "Less")

\* Map::target_points
TargetPoints(map, species) ==
    {n \in UNION {Adjacent(p) : p \in
                    {q \in DOMAIN map.sprites :
                        SpeciesIsEnemy(species, map.sprites[q].species)}} :
        ElementIsEmpty(Element(map, n))}

\* A variant of the score: the number of sprites
ScoreCount(map) == Cardinality(DOMAIN map.sprites)

\* Map::score
Score(map) ==
    LET RECURSIVE Sum(_)
        Sum(ps) == IF ps = {} THEN 0
                   ELSE LET p == CHOOSE q \in ps : TRUE
                        IN map.sprites[p].hit_points + Sum(ps \ {p})
    IN Sum(DOMAIN map.sprites)

\* ------------------------------------------------------------------------
\* map::pathfinding: PathSegment, SpritePath, Pathfinder, Pathfinders
\* ------------------------------------------------------------------------
\* SpritePath::new
SpritePath(destination, direction, distance) ==
    [destination |-> destination, direction |-> direction, distance |-> distance]

\* PathSegment::new
PathSegment(origin, direction) == [direction |-> direction, path |-> <<origin>>]

\* PathSegment::destination
PathDestination(ps) == ps.path[Len(ps.path)]

\* PathSegment::distance
PathDistance(ps) == Len(ps.path)

\* PathSegment::step
PathStep(ps, direction) ==
    [ps EXCEPT !.path = Append(@, Step(PathDestination(ps), direction))]

\* PathSegment::paths
Paths(point) ==
    [i \in 1..Len(DirectionAll) |->
        PathSegment(Step(point, DirectionAll[i]), DirectionAll[i])]

\* impl From<PathSegment> for SpritePath
FromPathSegment(ps) ==
    SpritePath(PathDestination(ps), ps.direction, PathDistance(ps))

\* Pathfinder::calculate_partial_path, from the i-th direction on: the
\* paths pushed and the visited set
RECURSIVE PartialPathFrom(_, _, _, _, _)
PartialPathFrom(map, candidate, visited, paths, i) ==
    IF i > Len(DirectionAll) THEN [paths |-> paths, visited |-> visited]
    ELSE LET next_point == Step(PathDestination(candidate), DirectionAll[i])
         IN IF (next_point \notin visited) /\ ~IsOccupied(map, next_point)
            THEN PartialPathFrom(map, candidate, visited \cup {next_point},
                                 Append(paths, PathStep(candidate, DirectionAll[i])),
                                 i + 1)
            ELSE PartialPathFrom(map, candidate, visited, paths, i + 1)

\* Pathfinder::calculate_partial_path
CalculatePartialPath(map, candidate, visited) ==
    PartialPathFrom(map, candidate, visited, <<>>, 1)

\* A variant of the initial queue: the occupied squares are not filtered out
SeedsUnfiltered(map, origin) == Paths(origin)

\* The initial queue of calculate_shortest_path: the four paths of length
\* one whose square is not occupied
Seeds(map, origin) ==
    SelectSeq(Paths(origin), LAMBDA p : ~IsOccupied(map, PathDestination(p)))

\* The while loop of calculate_shortest_path: the candidates in the order
\* they are pushed
RECURSIVE Search(_, _, _, _, _)
Search(map, targets, paths, visited, candidates) ==
    IF paths = <<>> THEN candidates
    ELSE LET candidate == Head(paths)
         IN IF PathDestination(candidate) \in targets
            THEN Search(map, targets, Tail(paths), visited,
                        Append(candidates, candidate))
            ELSE LET r == CalculatePartialPath(map, candidate, visited)
                 IN Search(map, targets, Tail(paths) \o r.paths, r.visited,
                           candidates)

\* A variant of the selection: max_by_key, the last candidate of greatest
\* distance
MaxByKeyDistance(candidates) ==
    IF candidates = <<>> THEN None
    ELSE LET i == CHOOSE j \in 1..Len(candidates) :
                    /\ \A k \in 1..Len(candidates) :
                           PathDistance(candidates[j]) >= PathDistance(candidates[k])
                    /\ \A k \in (j + 1)..Len(candidates) :
                           PathDistance(candidates[k]) < PathDistance(candidates[j])
         IN Some(candidates[i])

\* Iterator::min_by_key(|c| c.distance()): the first of the candidates of
\* least distance
MinByKeyDistance(candidates) ==
    IF candidates = <<>> THEN None
    ELSE LET i == CHOOSE j \in 1..Len(candidates) :
                    /\ \A k \in 1..Len(candidates) :
                           PathDistance(candidates[j]) <= PathDistance(candidates[k])
                    /\ \A k \in 1..(j - 1) :
                           PathDistance(candidates[k]) > PathDistance(candidates[j])
         IN Some(candidates[i])

\* A variant of calculate_shortest_path: no early return for a sprite in range
CalculateShortestPathNoRangeCheck(map, origin) ==
    IF SpritesGet(map.sprites, origin) = None THEN None
    ELSE LET species == map.sprites[origin].species
             targets == TargetPoints(map, species)
             found == MinByKeyDistance(
                        Search(map, targets, Seeds(map, origin), {}, <<>>))
         IN IF found = None THEN None
            ELSE Some(FromPathSegment(Unwrap(found)))

\* Pathfinder::calculate_shortest_path
CalculateShortestPath(map, origin) ==
    IF SpritesGet(map.sprites, origin) = None THEN None
    ELSE IF IsSome(Target(map, origin)) THEN None
    ELSE LET species == map.sprites[origin].species
             targets == TargetPoints(map, species)
             found == MinByKeyDistance(
                        Search(map, targets, Seeds(map, origin), {}, <<>>))
         IN IF found = None THEN None
            ELSE Some(FromPathSegment(Unwrap(found)))

\* Pathfinder::new: the empty path_cache
NewPathfinder == [p \in {} |-> None]

\* A variant of find_path: an occupied entry is not cloned, None is returned
FindPathHitNone(self, map, origin) ==
    IF origin \in DOMAIN self
    THEN [self |-> self, ret |-> None]
    ELSE LET inserted == [p \in (DOMAIN self) \cup {origin} |->
                            IF p = origin
                            THEN CalculateShortestPath(map, origin)
                            ELSE self[p]]
         IN [self |-> inserted, ret |-> inserted[origin]]

\* Pathfinder::find_path: the cache after the call and the value returned
FindPath(self, map, origin) ==
    IF origin \in DOMAIN self
    THEN [self |-> self, ret |-> self[origin]]
    ELSE LET inserted == [p \in (DOMAIN self) \cup {origin} |->
                            IF p = origin
                            THEN CalculateShortestPath(map, origin)
                            ELSE self[p]]
         IN [self |-> inserted, ret |-> inserted[origin]]

\* Pathfinder::clear
PathfinderClear(self) == NewPathfinder

\* Pathfinders::new
NewPathfinders == [s \in {} |-> NewPathfinder]

\* Pathfinders::get: the pathfinders with an entry for species
PathfindersGet(pathfinders, species) ==
    IF species \in DOMAIN pathfinders THEN pathfinders
    ELSE [s \in (DOMAIN pathfinders) \cup {species} |->
            IF s = species THEN NewPathfinder ELSE pathfinders[s]]

\* Pathfinders::clear
PathfindersClear(pathfinders) ==
    [s \in DOMAIN pathfinders |-> PathfinderClear(pathfinders[s])]

\* ------------------------------------------------------------------------
\* game::round: RoundOutcome, QPoint, Round
\* ------------------------------------------------------------------------
\* RoundOutcome; species is meaningful for Casualty, MidRoundVictory, Victory
RoundOutcome(kind, species) == [kind |-> kind, species |-> species]
\* A variant of the outcome a round starts with: Movement
StartsAsMovement == RoundOutcome("Movement", "-")

\* RoundOutcome::NoAction, the outcome a round starts with
NoAction == RoundOutcome("NoAction", "-")

\* RoundOutcome::combat
Combat(o) == IF o.kind = "NoAction" THEN RoundOutcome("CombatOnly", "-") ELSE o

\* A variant of movement: the outcome is left as it was
MovementUnrecorded(o) == o

\* RoundOutcome::movement
Movement(o) ==
    IF o.kind \in {"NoAction", "CombatOnly"} THEN RoundOutcome("Movement", "-") ELSE o

\* RoundOutcome::casualty
Casualty(o, species) ==
    IF o.kind \in {"CombatOnly", "NoAction", "Movement"}
    THEN RoundOutcome("Casualty", species)
    ELSE o

\* RoundOutcome::is_finished
IsFinished(o) == o.kind \notin {"CombatOnly", "Movement", "Casualty", "NoAction"}

\* A variant of the order of QPoint: not reversed
QPointCmpNotReversed(a, b) == PointCmp(a, b)

\* impl Ord for QPoint: the reverse of the Point order of the geometry crate
QPointCmp(a, b) == OrdReverse(PointCmp(a, b))

\* BinaryHeap<QPoint>::pop: the greatest element of the queue
HeapPop(queue) ==
    CHOOSE p \in queue : \A q \in queue \ {p} : QPointCmp(p, q) = "Greater"

\* Round::direction once the pathfinder of the species has answered: the
\* direction of the path found and, auxiliary, what was asked and served
DirectionFound(got, species, location, found) ==
    [pathfinders |-> [got EXCEPT ![species] = found.self],
     ret |-> IF found.ret = None THEN None
             ELSE Some(Unwrap(found.ret).direction),
     lookup |-> Some([species |-> species,
                      origin |-> location,
                      hit |-> location \in DOMAIN got[species],
                      served |-> found.ret])]

\* Round::direction for a sprite of the species that is not in range:
\* self.pathfinder.get(species).find_path(map, location)
DirectionLookup(got, species, map, location) ==
    DirectionFound(got, species, location, FindPath(got[species], map, location))

\* A variant of Round::direction: a position without a sprite is not passed
\* over untouched, the pathfinders are cleared for it
RoundDirectionClearsOnMiss(pathfinders, map, location) ==
    IF SpritesGet(map.sprites, location) = None
    THEN [pathfinders |-> PathfindersClear(pathfinders), ret |-> None, lookup |-> None]
    ELSE IF Target(map, location) = None
         THEN DirectionLookup(
                  PathfindersGet(pathfinders, map.sprites[location].species),
                  map.sprites[location].species, map, location)
         ELSE [pathfinders |-> pathfinders, ret |-> None, lookup |-> None]

\* Round::direction: the pathfinders after the call, the direction returned
\* and, when the pathfinder was consulted, what it was asked and served
RoundDirection(pathfinders, map, location) ==
    IF Target(map, location) = None
    THEN IF SpritesGet(map.sprites, location) = None
         THEN [pathfinders |-> pathfinders, ret |-> None, lookup |-> None]
         ELSE DirectionLookup(
                  PathfindersGet(pathfinders, map.sprites[location].species),
                  map.sprites[location].species, map, location)
    ELSE [pathfinders |-> pathfinders, ret |-> None, lookup |-> None]

\* A variant of the movement phase: the pathfinders are not cleared
AfterMoveNotCleared(pathfinders, moved) == pathfinders

\* The pathfinders after the movement phase of Round::tick
AfterMove(pathfinders, moved) ==
    IF moved THEN PathfindersClear(pathfinders) ELSE pathfinders

\* The pathfinders after the attack phase of Round::tick
AfterAttack(pathfinders, died) ==
    IF died THEN PathfindersClear(pathfinders) ELSE pathfinders

\* Auxiliary: what a turn did, for the properties
TurnRecord(grid, sprites, location, dir, target, died) ==
    [kind |-> "turn",
     location |-> location,
     actor |-> IF location \in DOMAIN sprites
               THEN Some(sprites[location].id) ELSE None,
     in_range |-> IsSome(Target(Map(grid, sprites), location)),
     lookup |-> dir.lookup,
     direction |-> dir.ret,
     target |-> target,
     died |-> died]

\* Round::tick once the attack is made: the outcome by the status of the
\* sprite attacked, the pathfinders cleared on a death
Struck(grid, sprites, queue, location, dir, outcome1, pf1, target, att) ==
    [sprites |-> att.sprites,
     pathfinders |-> AfterAttack(pf1, ~att.status.alive),
     queue |-> queue \ {location},
     outcome |-> IF att.status.alive THEN Combat(outcome1)
                 ELSE Casualty(outcome1, att.status.species),
     turn |-> TurnRecord(grid, sprites, location, dir, target, ~att.status.alive)]

\* Round::tick, the attack phase: the sprite, now at location1, attacks the
\* target if there is one
AttackPhase(grid, sprites, queue, location, dir, sprites1, outcome1, pf1, location1, target) ==
    IF IsSome(target)
    THEN Struck(grid, sprites, queue, location, dir, outcome1, pf1, target,
                SpritesAttack(sprites1, location1, Unwrap(target)))
    ELSE [sprites |-> sprites1,
          pathfinders |-> AfterAttack(pf1, FALSE),
          queue |-> queue \ {location},
          outcome |-> outcome1,
          turn |-> TurnRecord(grid, sprites, location, dir, target, FALSE)]

\* Round::tick, after the movement phase: the target of the sprite where it
\* now stands
Moved(grid, sprites, queue, location, dir, sprites1, outcome1, pf1, location1) ==
    AttackPhase(grid, sprites, queue, location, dir, sprites1, outcome1, pf1,
                location1, Target(Map(grid, sprites1), location1))

\* Round::tick, the movement phase: the sprite steps in the direction found
MovementPhase(grid, sprites, queue, outcome, location, dir) ==
    IF IsSome(dir.ret)
    THEN Moved(grid, sprites, queue, location, dir,
               SpritesStep(sprites, location, Unwrap(dir.ret)),
               Movement(outcome),
               AfterMove(dir.pathfinders, TRUE),
               Step(location, Unwrap(dir.ret)))
    ELSE Moved(grid, sprites, queue, location, dir, sprites, outcome,
               AfterMove(dir.pathfinders, FALSE), location)

\* Round::tick for the position popped
TurnAt(grid, sprites, pathfinders, queue, outcome, location) ==
    MovementPhase(grid, sprites, queue, outcome, location,
                  RoundDirection(pathfinders, Map(grid, sprites), location))

\* Round::tick past the victory check: the turn of the position popped
RoundTurn(grid, sprites, pathfinders, queue, outcome) ==
    TurnAt(grid, sprites, pathfinders, queue, outcome, HeapPop(queue))

\* Round::play after its loop, and the match of Game::run on what it returns
PlayOutcome(sprites, outcome) ==
    IF IsSome(Victorious(sprites)) /\ ~IsFinished(outcome)
    THEN RoundOutcome("Victory", Unwrap(Victorious(sprites)))
    ELSE outcome

\* GameComplete
GameComplete(victors, rounds, score) ==
    [kind |-> "Complete", victors |-> victors, rounds |-> rounds, score |-> score]

\* ------------------------------------------------------------------------
\* State
\* ------------------------------------------------------------------------
VARIABLES
    grid,         \* Map::grid: the points recorded as open ground
    sprites,      \* Map::sprites: Point -> Sprite
    pathfinders,  \* Game::pathfinders: Species -> (Point -> Option<SpritePath>)
    queue,        \* Round::queue
    outcome,      \* the outcome variable of Round::play
    round,        \* the round variable of Game::run
    pc,           \* "run": between rounds; "play": in Round::play; "done"; "path"
    result,       \* what Game::run returned
    turn,         \* auxiliary: what the last tick did
    acted,        \* auxiliary: the sprites that took a turn this round, in order
    popped,       \* auxiliary: the positions popped this round, in order
    census,       \* auxiliary: sprites placed at construction, and deaths since
    observed,     \* auxiliary: the calls of the callback f and its last arguments
    display,      \* the receiving ends of the channels: "open" or "closed"
    link,         \* the channels of Link: what was sent and is not yet received
    views         \* MapView::map and MessageView::message, where the display is

vars == <<grid, sprites, pathfinders, queue, outcome, round, pc, result, turn,
          acted, popped, census, observed, display, link, views>>

\* mpsc::channel(), twice: nothing sent on either channel
NewLink == [map |-> <<>>, message |-> <<>>, sent |-> 0]

\* What Sender<Map>::send puts in the channel: the clone of the map and,
\* auxiliary, its ordinal among the maps sent and the round it was sent in
Snapshot(n, t, m) == [sent |-> n, round |-> t, sprites |-> m]

\* No display: the views are not made
NoViews == [at |-> "idle", map |-> Snapshot(0, 0, <<>>), message |-> <<"", 0>>]

NoTurn ==
    [kind |-> "none", location |-> Point(0, 0), actor |-> None, in_range |-> FALSE,
     lookup |-> None, direction |-> None, target |-> None, died |-> FALSE]

\* No call of the callback yet
NotObserved == [calls |-> 0, round |-> 0, sprites |-> << >>]

\* A variant of the call: the callback is not invoked
ObserveNothing(seen, game, number) == seen

\* f(&self, round): the callback is handed the game and the round number
Observe(seen, game, number) ==
    [calls |-> seen.calls + 1, round |-> number, sprites |-> game]

\* The w by h rectangle of points a parsed text covers
Rect(w, h) == {Point(px, py) : px \in 0..(w - 1), py \in 0..(h - 1)}

\* The subsets of S of at most n elements
RECURSIVE UpTo(_, _)
UpTo(S, n) ==
    IF n = 0 \/ S = {} THEN {{}}
    ELSE LET e == CHOOSE v \in S : TRUE
         IN UpTo(S \ {e}, n) \cup {T \cup {e} : T \in UpTo(S \ {e}, n - 1)}

\* The rank of p among ps in reading order: names the sprite placed at p
Rank(p, ps) == 1 + Cardinality({q \in ps : PointCmp(q, p) = "Less"})

\* MapBuilder::build: every non-wall character is recorded as open ground and
\* every sprite glyph places a sprite with its species' stats
Build(open, species, health, attack) ==
    [p \in DOMAIN species |->
        Sprite(Rank(p, DOMAIN species), species[p], health[p], attack[species[p]])]

\* Game::new on a built map
Init ==
    /\ \E open \in SUBSET Rect(MaxX, MaxY) :
       \E ps \in UpTo(open, MaxSprites) :
       \E species \in [ps -> Species] :
       \E health \in [ps -> 1..MaxHP] :
       \E attack \in [Species -> 1..MaxAP] :
          /\ grid = open
          /\ sprites = Build(open, species, health, attack)
          /\ census = [placed |-> Cardinality(ps), deaths |-> 0]
    /\ pathfinders = NewPathfinders
    /\ queue = {}
    /\ outcome = NoAction
    /\ round = 0
    /\ pc = "run"
    /\ result = [kind |-> "Running"]
    /\ turn = NoTurn
    /\ acted = <<>>
    /\ popped = <<>>
    /\ observed = NotObserved
    /\ display = "open"
    /\ link = NewLink
    /\ views = NoViews

\* A variant of the head of the loop body: the error of the callback is
\* recorded and the round is played all the same
RunRoundErrorDeferred(rounds) ==
    /\ pc = "run"
    /\ round < rounds
    /\ round' = round + 1
    /\ observed' = Observe(observed, sprites, round + 1)
    /\ \E ok \in BOOLEAN :
          /\ result' = IF ok THEN result ELSE [kind |-> "Interrupted"]
          /\ queue' = Positions(sprites)
          /\ outcome' = NoAction
          /\ pc' = "play"
          /\ turn' = NoTurn
          /\ acted' = <<>>
          /\ popped' = <<>>
    /\ UNCHANGED <<grid, sprites, pathfinders, census, display, link, views>>

\* Game::run: the head of the loop body: the callback is called with the
\* round number and, if it returns Ok, Round::new; if it returns Err, run
\* returns Err(RoundError::Interrupted)
RunRoundUpTo(rounds) ==
    /\ pc = "run"
    /\ round < rounds
    /\ round' = round + 1
    /\ observed' = Observe(observed, sprites, round + 1)
    /\ \E ok \in BOOLEAN :
          IF ok
          THEN /\ queue' = Positions(sprites)
               /\ outcome' = NoAction
               /\ pc' = "play"
               /\ turn' = NoTurn
               /\ acted' = <<>>
               /\ popped' = <<>>
               /\ UNCHANGED result
          ELSE /\ result' = [kind |-> "Interrupted"]
               /\ pc' = "done"
               /\ UNCHANGED <<queue, outcome, turn, acted, popped>>
    /\ UNCHANGED <<grid, sprites, pathfinders, census, display, link, views>>

\* Round::tick: the state after the turn t
TickTurn(t) ==
    /\ sprites' = t.sprites
    /\ pathfinders' = t.pathfinders
    /\ queue' = t.queue
    /\ outcome' = t.outcome
    /\ turn' = t.turn
    /\ acted' = IF IsSome(t.turn.actor)
                THEN Append(acted, Unwrap(t.turn.actor)) ELSE acted
    /\ popped' = Append(popped, t.turn.location)
    /\ census' = [census EXCEPT !.deaths = IF t.turn.died THEN @ + 1 ELSE @]

\* Round::tick, one iteration of the loop of Round::play
Tick ==
    /\ pc = "play"
    /\ queue # {}
    /\ ~IsFinished(outcome)
    /\ IF IsSome(Victorious(sprites))
       THEN /\ outcome' = RoundOutcome("MidRoundVictory", Unwrap(Victorious(sprites)))
            /\ turn' = [NoTurn EXCEPT !.kind = "victory"]
            /\ UNCHANGED <<sprites, pathfinders, queue, acted, popped, census>>
       ELSE TickTurn(RoundTurn(grid, sprites, pathfinders, queue, outcome))
    /\ UNCHANGED <<grid, round, pc, result, observed, display, link, views>>

\* Round::play once its loop ends, and the match of Game::run on the outcome
PlayEnd ==
    /\ pc = "play"
    /\ queue = {} \/ IsFinished(outcome)
    /\ LET o == PlayOutcome(sprites, outcome)
       IN /\ outcome' = o
          /\ CASE o.kind = "Victory" ->
                    /\ result' = GameComplete(o.species, round,
                                              round * Score(Map(grid, sprites)))
                    /\ pc' = "done"
               [] o.kind = "MidRoundVictory" ->
                    /\ result' = GameComplete(o.species, round - 1,
                                              (round - 1) * Score(Map(grid, sprites)))
                    /\ pc' = "done"
               [] o.kind = "NoAction" ->
                    /\ result' = [kind |-> "NoMovesRemain"]
                    /\ pc' = "done"
               [] OTHER ->
                    /\ pc' = "run"
                    /\ UNCHANGED result
    /\ UNCHANGED <<grid, sprites, pathfinders, queue, round, turn, acted, popped,
                   census, observed, display, link, views>>

\* Game::run, its rounds counted up to MaxRound
RunRound == RunRoundUpTo(MaxRound)

Next == RunRound \/ Tick \/ PlayEnd

Spec == Init /\ [][Next]_vars

\* Game::new on a built map of at most LiveWalls walls, sprites of full or
\* lesser health and attack power 1
LiveInit ==
    /\ \E walls \in UpTo(Rect(MaxX, MaxY), LiveWalls) :
       \E ps \in UpTo(Rect(MaxX, MaxY) \ walls, MaxSprites) :
       \E species \in [ps -> Species] :
       \E health \in [ps -> 1..MaxHP] :
          /\ grid = Rect(MaxX, MaxY) \ walls
          /\ sprites = Build(grid, species, health, [s \in Species |-> 1])
          /\ census = [placed |-> Cardinality(ps), deaths |-> 0]
    /\ pathfinders = NewPathfinders
    /\ queue = {}
    /\ outcome = NoAction
    /\ round = 0
    /\ pc = "run"
    /\ result = [kind |-> "Running"]
    /\ turn = NoTurn
    /\ acted = <<>>
    /\ popped = <<>>
    /\ observed = NotObserved
    /\ display = "open"
    /\ link = NewLink
    /\ views = NoViews

\* The values of RoundOutcome
Outcomes ==
    {RoundOutcome(k, s) :
        k \in {"NoAction", "CombatOnly", "Casualty", "Movement",
               "MidRoundVictory", "Victory"},
        s \in Species \cup {"-"}}

\* Where Game::run is: its program counter, round number, queue and outcome
progress == <<pc, round, queue, outcome>>

\* What every step of Game::run does to progress: the loop head counts the
\* round and enters Round::play or returns, a tick returns a mid-round
\* victory or pops a position, the end of a round leaves Round::play. Every
\* step of Next is such a step and changes progress, and one is possible
\* exactly when a step of Next is.
Advance ==
    \/ /\ pc = "run"
       /\ round < MaxRound
       /\ round' = round + 1
       /\ \/ pc' = "play" /\ queue' = Positions(sprites) /\ outcome' = NoAction
          \/ pc' = "done" /\ UNCHANGED <<queue, outcome>>
    \/ /\ pc = "play"
       /\ queue # {}
       /\ ~IsFinished(outcome)
       /\ \/ /\ \E s \in Species : outcome' = RoundOutcome("MidRoundVictory", s)
             /\ UNCHANGED queue
          \/ /\ \E q \in queue : queue' = queue \ {q}
             /\ outcome' \in Outcomes
       /\ UNCHANGED <<pc, round>>
    \/ /\ pc = "play"
       /\ queue = {} \/ IsFinished(outcome)
       /\ pc' \in {"run", "done"}
       /\ outcome' \in Outcomes
       /\ UNCHANGED <<round, queue>>

\* Game::run runs on one thread and is not interrupted: whenever a step of
\* it is possible, a step is taken
LiveSpec == LiveInit /\ [][Next]_vars /\ WF_progress(Advance)

\* ------------------------------------------------------------------------
\* The pathfinder on a fixed battlefield: find_path called for the sprites
\* of a built map, as the tests of map/pathfinding.rs call it
\* ------------------------------------------------------------------------
PathInit ==
    /\ \E walls \in UpTo(Rect(PathX, PathY), PathWalls) :
       \E ps \in UpTo(Rect(PathX, PathY) \ walls, PathSprites) :
       \E species \in [ps -> Species] :
          /\ ps # {}
          /\ grid = Rect(PathX, PathY) \ walls
          /\ sprites = Build(grid, species, [p \in ps |-> MaxHP],
                             [s \in Species |-> 1])
          /\ census = [placed |-> Cardinality(ps), deaths |-> 0]
    /\ pathfinders = NewPathfinders
    /\ queue = {}
    /\ outcome = NoAction
    /\ round = 0
    /\ pc = "path"
    /\ result = [kind |-> "Running"]
    /\ turn = NoTurn
    /\ acted = <<>>
    /\ popped = <<>>
    /\ observed = NotObserved
    /\ display = "open"
    /\ link = NewLink
    /\ views = NoViews

\* pathfinders.get(species).find_path(map, origin) for the sprite at origin;
\* one behaviour calls it for one origin, any number of times
FindPathCall(origin) ==
    /\ pc = "path"
    /\ origin \in DOMAIN sprites
    /\ turn.kind = "find_path" => turn.location = origin
    /\ LET map == Map(grid, sprites)
           species == sprites[origin].species
           got == PathfindersGet(pathfinders, species)
           found == FindPath(got[species], map, origin)
       IN /\ pathfinders' = [got EXCEPT ![species] = found.self]
          /\ turn' = [NoTurn EXCEPT
                        !.kind = "find_path",
                        !.location = origin,
                        !.lookup = Some([species |-> species,
                                         origin |-> origin,
                                         hit |-> origin \in DOMAIN got[species],
                                         served |-> found.ret])]
    /\ UNCHANGED <<grid, sprites, queue, outcome, round, pc, result, acted,
                   popped, census, observed, display, link, views>>

PathNext == \E origin \in Rect(PathX, PathY) : FindPathCall(origin)

SpecPath == PathInit /\ [][PathNext]_vars
\* ------------------------------------------------------------------------
\* One sprite wounded again and again, as tests::sprite_attack of
\* sprite/mod.rs does
\* ------------------------------------------------------------------------
WoundInit ==
    /\ \E species \in Species, health \in 0..WoundHP, attack \in 1..MaxAP :
          sprites = Place(<< >>, Point(0, 0), Sprite(1, species, health, attack))
    /\ grid = {Point(0, 0)}
    /\ census = [placed |-> 1, deaths |-> 0]
    /\ pathfinders = NewPathfinders
    /\ queue = {}
    /\ outcome = NoAction
    /\ round = 0
    /\ pc = "sprite"
    /\ result = [kind |-> "Running"]
    /\ turn = NoTurn
    /\ acted = <<>>
    /\ popped = <<>>
    /\ observed = NotObserved
    /\ display = "open"
    /\ link = NewLink
    /\ views = NoViews

\* sprite.wound(attack): the sprite is updated in place and its status
\* returned
WoundCall(attack) ==
    /\ pc = "sprite"
    /\ sprites' = [sprites EXCEPT ![Point(0, 0)] = Wound(@, attack)]
    /\ turn' = [kind |-> "wound",
                attack |-> attack,
                before |-> sprites[Point(0, 0)],
                status |-> Status(Wound(sprites[Point(0, 0)], attack))]
    /\ UNCHANGED <<grid, pathfinders, queue, outcome, round, pc, result, acted,
                   popped, census, observed, display, link, views>>

WoundNext == \E attack \in 0..WoundAP : WoundCall(attack)

SpecWound == WoundInit /\ [][WoundNext]_vars

\* ------------------------------------------------------------------------
\* bin/wars.rs: the worker thread runs Map::run of map/mod.rs with a callback
\* that sends the map and a message to the display over two channels; the
\* display thread lays the views out, each reading its channel
\* ------------------------------------------------------------------------
\* RoundOutcome::casualty of map/mod.rs: Movement stays Movement
MapCasualty(o) ==
    IF o.kind \in {"CombatOnly", "NoAction"} THEN RoundOutcome("Casualty", "-") ELSE o

\* Map::tick of map/mod.rs: the outcome after a turn that moved, attacked
\* or killed as turn records
MapTickOutcome(o, moved, attacked, died) ==
    IF ~attacked THEN (IF moved THEN Movement(o) ELSE o)
    ELSE IF died THEN MapCasualty(IF moved THEN Movement(o) ELSE o)
    ELSE Combat(IF moved THEN Movement(o) ELSE o)

\* BinaryHeap<Point>::pop on the round of Map: the greatest position in the
\* order of Point
MapPop(heap) ==
    CHOOSE p \in heap : \A q \in heap \ {p} : PointCmp(p, q) = "Greater"

\* A variant of send: the map is not sent
SendNoMap(l, t, m) == l

\* link.map.send(m.clone()) on an open channel
SendMap(l, t, m) ==
    [l EXCEPT !.map = Append(@, Snapshot(l.sent + 1, t, m)), !.sent = @ + 1]

\* link.message.send(text) on an open channel
SendMessage(l, text) == [l EXCEPT !.message = Append(@, text)]

\* MapView::new(rx, map.clone()) and MessageView::new(rx_message)
NewViews(m) == [at |-> "idle", map |-> Snapshot(0, 0, m), message |-> <<"", 0>>]

\* A variant of the loop body of update: the value received is dropped
UpdateKeeps(held, received) == held

\* The loop body of MapView::update and of MessageView::update:
\* self.map = map, self.message = message
Update(held, received) == received

\* The battlefields the worker of wars.rs is run on here
WorkerMaps(walls, most) ==
    /\ \E w \in UpTo(Rect(MaxX, MaxY), walls) :
       \E ps \in UpTo(Rect(MaxX, MaxY) \ w, most) :
       \E species \in [ps -> Species] :
       \E health \in [ps -> 1..MaxHP] :
          /\ grid = Rect(MaxX, MaxY) \ w
          /\ sprites = Build(grid, species, health, [s \in Species |-> 1])
          /\ census = [placed |-> Cardinality(ps), deaths |-> 0]
    /\ pathfinders = NewPathfinders
    /\ queue = {}
    /\ outcome = NoAction
    /\ round = 0
    /\ pc = "worker"
    /\ result = [kind |-> "Running"]
    /\ turn = NoTurn
    /\ acted = <<>>
    /\ popped = <<>>
    /\ observed = NotObserved
    /\ display = "open"
    /\ link = NewLink
    /\ views = NewViews(sprites)

\* The worker is spawned with the map built and the display open
WorkerInit == WorkerMaps(LiveWalls, MaxSprites)

\* The worker on a map of at most RunWalls walls, which can wall sprites off
\* from one another
MapRunInit == WorkerMaps(RunWalls, MaxSprites)

\* The display is closed: siv.run() returns between two frames and the views
\* that own the two receivers are dropped
DisplayCloses ==
    /\ display = "open"
    /\ views.at = "idle"
    /\ pc \notin {"done", "panicked"}
    /\ display' = "closed"
    /\ UNCHANGED <<grid, sprites, pathfinders, queue, outcome, round, pc, result,
                   turn, acted, popped, census, observed, link, views>>

\* Map::run, the head of the loop body: the callback of the worker is called
\* and sends the map; a failed send is returned as Err by the closure and
\* Map::run returns Err(RoundError::Interrupted)
WorkerCallback ==
    /\ pc = "worker"
    /\ round < MaxRound
    /\ round' = round + 1
    /\ observed' = Observe(observed, sprites, round + 1)
    /\ IF display = "open"
       THEN /\ link' = SendMap(link, round + 1, sprites)
            /\ pc' = "send_message"
            /\ UNCHANGED result
       ELSE /\ result' = [kind |-> "Interrupted"]
            /\ pc' = "finish"
            /\ UNCHANGED link
    /\ UNCHANGED <<grid, sprites, pathfinders, queue, outcome, turn, acted,
                   popped, census, display, views>>

\* The callback of the worker sends the message "Time: t" and returns Ok, and
\* Map::round begins with init_round; a failed send is returned as Err
WorkerSendMessage ==
    /\ pc = "send_message"
    /\ IF display = "open"
       THEN /\ link' = SendMessage(link, <<"Time", round>>)
            /\ queue' = Positions(sprites)
            /\ pc' = "map_round"
            /\ turn' = NoTurn
            /\ acted' = <<>>
            /\ popped' = <<>>
            /\ UNCHANGED result
       ELSE /\ result' = [kind |-> "Interrupted"]
            /\ pc' = "finish"
            /\ UNCHANGED <<link, queue, turn, acted, popped>>
    /\ UNCHANGED <<grid, sprites, pathfinders, outcome, round, census, observed,
                   display, views>>

\* Map::tick: the state after the turn t; the pathfinder is made anew for
\* every turn and not kept
MapTickTurn(t) ==
    /\ sprites' = t.sprites
    /\ queue' = t.queue
    /\ outcome' = MapTickOutcome(outcome, t.turn.direction # None,
                                 t.turn.target # None, t.turn.died)
    /\ turn' = t.turn
    /\ acted' = IF IsSome(t.turn.actor)
                THEN Append(acted, Unwrap(t.turn.actor)) ELSE acted
    /\ popped' = Append(popped, t.turn.location)
    /\ census' = [census EXCEPT !.deaths = IF t.turn.died THEN @ + 1 ELSE @]

\* Map::tick, one iteration of the loop of Map::round; Pathfinder::new(self)
\* searches as a pathfinder with nothing cached does, and a position whose
\* sprite is gone has no target and no path
MapTick ==
    /\ pc = "map_round"
    /\ queue # {}
    /\ ~IsFinished(outcome)
    /\ IF IsSome(Victorious(sprites))
       THEN /\ outcome' = RoundOutcome("MidRoundVictory", Unwrap(Victorious(sprites)))
            /\ turn' = [NoTurn EXCEPT !.kind = "victory"]
            /\ UNCHANGED <<sprites, queue, acted, popped, census>>
       ELSE MapTickTurn(TurnAt(grid, sprites, NewPathfinders, queue, outcome,
                               MapPop(queue)))
    /\ UNCHANGED <<grid, pathfinders, round, pc, result, observed, display, link,
                   views>>

\* Map::round once its loop ends, and the match of Map::run on the outcome:
\* any outcome but a victory or NoAction is carried into the next round
MapRoundEnd ==
    /\ pc = "map_round"
    /\ queue = {} \/ IsFinished(outcome)
    /\ LET o == PlayOutcome(sprites, outcome)
       IN /\ outcome' = o
          /\ CASE o.kind = "Victory" ->
                    /\ result' = GameComplete(o.species, round,
                                              round * Score(Map(grid, sprites)))
                    /\ pc' = "finish"
               [] o.kind = "MidRoundVictory" ->
                    /\ result' = GameComplete(o.species, round - 1,
                                              (round - 1) * Score(Map(grid, sprites)))
                    /\ pc' = "finish"
               [] o.kind = "NoAction" ->
                    /\ result' = [kind |-> "NoMovesRemain"]
                    /\ pc' = "finish"
               [] OTHER ->
                    /\ pc' = "worker"
                    /\ UNCHANGED result
    /\ UNCHANGED <<grid, sprites, pathfinders, queue, round, turn, acted, popped,
                   census, observed, display, link, views>>

\* worker, after Map::run returned: link.map.send(map.clone()).unwrap()
WorkerSendMap ==
    /\ pc = "finish"
    /\ IF display = "open"
       THEN pc' = "report" /\ link' = SendMap(link, round, sprites)
       ELSE pc' = "panicked" /\ UNCHANGED link
    /\ UNCHANGED <<grid, sprites, pathfinders, queue, outcome, round, result,
                   turn, acted, popped, census, observed, display, views>>

\* worker, the last statement: link.message.send(...).unwrap() of the
\* outcome or of the error
WorkerReport ==
    /\ pc = "report"
    /\ IF display = "open"
       THEN pc' = "done" /\ link' = SendMessage(link, <<result.kind, round>>)
       ELSE pc' = "panicked" /\ UNCHANGED link
    /\ UNCHANGED <<grid, sprites, pathfinders, queue, outcome, round, result,
                   turn, acted, popped, census, observed, display, views>>

WorkerNext ==
    \/ DisplayCloses
    \/ WorkerCallback
    \/ WorkerSendMessage
    \/ MapTick
    \/ MapRoundEnd
    \/ WorkerSendMap
    \/ WorkerReport

SpecWorker == WorkerInit /\ [][WorkerNext]_vars

\* Map::run under the worker, on the maps of MapRunInit
SpecMapRun == MapRunInit /\ [][WorkerNext]_vars

\* ------------------------------------------------------------------------
\* map/round.rs: Round on a Map that owns one Pathfinder
\* ------------------------------------------------------------------------
\* The pathfinder field of the Map: one Pathfinder with an empty cache
OwnedPathfinder == [owned |-> NewPathfinder]

\* Round::direction of map/round.rs: the pathfinder of the map is asked for
\* every position that has no target, a position without a sprite included
OwnedDirection(held, map, location) ==
    IF Target(map, location) = None
    THEN DirectionFound(held, "owned", location,
                        FindPath(held.owned, map, location))
    ELSE [pathfinders |-> held, ret |-> None, lookup |-> None]

\* Round::tick of map/round.rs on the pathfinder: self.map.pathfinder.clear()
\* follows a step and nothing else
OwnedAfterTick(held, moved) ==
    IF moved THEN PathfindersClear(held) ELSE held

\* Round::tick of map/round.rs: the state after the turn t whose direction
\* phase was d
OwnedTickTurn(d, t) ==
    /\ sprites' = t.sprites
    /\ pathfinders' = OwnedAfterTick(d.pathfinders, d.ret # None)
    /\ queue' = t.queue
    /\ outcome' = MapTickOutcome(outcome, t.turn.direction # None,
                                 t.turn.target # None, t.turn.died)
    /\ turn' = t.turn
    /\ acted' = IF IsSome(t.turn.actor)
                THEN Append(acted, Unwrap(t.turn.actor)) ELSE acted
    /\ popped' = Append(popped, t.turn.location)
    /\ census' = [census EXCEPT !.deaths = IF t.turn.died THEN @ + 1 ELSE @]

\* Round::tick of map/round.rs for the position popped, its direction phase
\* done
OwnedTurn(location, d) ==
    OwnedTickTurn(d, MovementPhase(grid, sprites, queue, outcome, location, d))

\* Round::tick of map/round.rs, one iteration of the loop of Round::play
OwnedTick ==
    /\ pc = "play"
    /\ queue # {}
    /\ ~IsFinished(outcome)
    /\ IF IsSome(Victorious(sprites))
       THEN /\ outcome' = RoundOutcome("MidRoundVictory", Unwrap(Victorious(sprites)))
            /\ turn' = [NoTurn EXCEPT !.kind = "victory"]
            /\ UNCHANGED <<sprites, pathfinders, queue, acted, popped, census>>
       ELSE OwnedTurn(MapPop(queue),
                      OwnedDirection(pathfinders, Map(grid, sprites), MapPop(queue)))
    /\ UNCHANGED <<grid, round, pc, result, observed, display, link, views>>

\* Map::new of the Map of map/round.rs on a built map of at most RunWalls
\* walls
OwnedInit ==
    /\ \E w \in UpTo(Rect(MaxX, MaxY), RunWalls) :
       \E ps \in UpTo(Rect(MaxX, MaxY) \ w, MaxSprites) :
       \E species \in [ps -> Species] :
       \E health \in [ps -> 1..MaxHP] :
          /\ grid = Rect(MaxX, MaxY) \ w
          /\ sprites = Build(grid, species, health, [s \in Species |-> 1])
          /\ census = [placed |-> Cardinality(ps), deaths |-> 0]
    /\ pathfinders = OwnedPathfinder
    /\ queue = {}
    /\ outcome = NoAction
    /\ round = 0
    /\ pc = "run"
    /\ result = [kind |-> "Running"]
    /\ turn = NoTurn
    /\ acted = <<>>
    /\ popped = <<>>
    /\ observed = NotObserved
    /\ display = "open"
    /\ link = NewLink
    /\ views = NoViews

\* Map::run of map/round.rs has the loop of Game::run: the callback, then
\* self.round().play() and the same match on the outcome
OwnedNext == RunRound \/ OwnedTick \/ PlayEnd

SpecOwned == OwnedInit /\ [][OwnedNext]_vars

\* ------------------------------------------------------------------------
\* The display thread: cursive lays out the children of the LinearLayout at
\* every frame, the MessageView before the MapView, and each layout calls
\* update, a loop of try_recv
\* ------------------------------------------------------------------------
\* A frame begins: layout of the MessageView calls update
Layout ==
    /\ display = "open"
    /\ views.at = "idle"
    /\ views' = [views EXCEPT !.at = "message"]
    /\ UNCHANGED <<grid, sprites, pathfinders, queue, outcome, round, pc, result,
                   turn, acted, popped, census, observed, display, link>>

\* MessageView::update, one try_recv: Ok(message) is kept and the loop goes
\* on; Err ends the loop, and layout of the MapView calls update
MessageViewUpdate ==
    /\ views.at = "message"
    /\ IF link.message # <<>>
       THEN /\ views' = [views EXCEPT !.message = Update(@, Head(link.message))]
            /\ link' = [link EXCEPT !.message = Tail(@)]
       ELSE /\ views' = [views EXCEPT !.at = "map"]
            /\ UNCHANGED link
    /\ UNCHANGED <<grid, sprites, pathfinders, queue, outcome, round, pc, result,
                   turn, acted, popped, census, observed, display>>

\* MapView::update, one try_recv: Ok(map) is kept and the loop goes on; Err
\* ends the loop and the frame
MapViewUpdate ==
    /\ views.at = "map"
    /\ IF link.map # <<>>
       THEN /\ views' = [views EXCEPT !.map = Update(@, Head(link.map))]
            /\ link' = [link EXCEPT !.map = Tail(@)]
       ELSE /\ views' = [views EXCEPT !.at = "idle"]
            /\ UNCHANGED link
    /\ UNCHANGED <<grid, sprites, pathfinders, queue, outcome, round, pc, result,
                   turn, acted, popped, census, observed, display>>

DisplayNext == Layout \/ MessageViewUpdate \/ MapViewUpdate

\* The worker is spawned on a battlefield without walls of at most
\* ViewSprites sprites
DisplayInit == WorkerMaps(0, ViewSprites)

WarsNext == WorkerNext \/ DisplayNext

SpecWars == DisplayInit /\ [][WarsNext]_vars

\* What every step of the worker does to progress: the callback counts the
\* round and goes on to its second send or Map::run returns, the second send
\* enters Map::round or Map::run returns, a tick returns a mid-round victory
\* or pops a position, the end of a round goes back to the loop head or
\* returns, and the two last sends of the worker are made or panic. One is
\* possible exactly when a step of the worker is.
WorkerAdvance ==
    \/ /\ pc = "worker"
       /\ round < MaxRound
       /\ round' = round + 1
       /\ pc' \in {"send_message", "finish"}
       /\ UNCHANGED <<queue, outcome>>
    \/ /\ pc = "send_message"
       /\ \/ pc' = "map_round" /\ queue' = Positions(sprites)
          \/ pc' = "finish" /\ UNCHANGED queue
       /\ UNCHANGED <<round, outcome>>
    \/ /\ pc = "map_round"
       /\ queue # {}
       /\ ~IsFinished(outcome)
       /\ \/ /\ \E s \in Species : outcome' = RoundOutcome("MidRoundVictory", s)
             /\ UNCHANGED queue
          \/ /\ \E q \in queue : queue' = queue \ {q}
             /\ outcome' \in Outcomes
       /\ UNCHANGED <<pc, round>>
    \/ /\ pc = "map_round"
       /\ queue = {} \/ IsFinished(outcome)
       /\ pc' \in {"worker", "finish"}
       /\ outcome' \in Outcomes
       /\ UNCHANGED <<round, queue>>
    \/ /\ pc = "finish"
       /\ pc' \in {"report", "panicked"}
       /\ UNCHANGED <<round, queue, outcome>>
    \/ /\ pc = "report"
       /\ pc' \in {"done", "panicked"}
       /\ UNCHANGED <<round, queue, outcome>>

\* The worker thread is scheduled, and the display redraws at 30 frames per
\* second (siv.set_fps(30)): each takes a step whenever it can
LiveWars ==
    DisplayInit /\ [][WarsNext]_vars /\ WF_progress(WorkerAdvance) /\ WF_views(DisplayNext)


\* ------------------------------------------------------------------------
\* map/tile.rs, sprite/builder.rs, map/mod.rs: Grid, SpriteBuilder,
\* MapBuilder::build on a text and Display for Map. A text is the sequence
\* of its lines (str::lines), a line the sequence of its characters.
\* ------------------------------------------------------------------------
\* A variant of Grid::insert: the point is recorded whatever the tile
GridInsertAny(g, point, tile) == g \cup {point}

\* Grid::insert: HashSet::insert for Empty, HashSet::remove for Wall
GridInsert(g, point, tile) ==
    IF tile = "Empty" THEN g \cup {point} ELSE g \ {point}

\* StatBuilder::new
StatBuilder(default) == [default |-> default, species |-> << >>]

\* StatBuilder::for_species (HashMap::insert: the stat of the species is
\* replaced)
ForSpecies(sb, species, stat) ==
    [sb EXCEPT !.species = [s \in (DOMAIN sb.species) \cup {species} |->
                               IF s = species THEN stat ELSE sb.species[s]]]

\* A variant of StatBuilder::get: the default, whatever was registered
StatGetDefault(sb, species) == sb.default

\* StatBuilder::get
StatGet(sb, species) ==
    IF species \in DOMAIN sb.species THEN sb.species[species] ELSE sb.default

\* SpriteBuilder::default
DefaultSpriteBuilder ==
    [health |-> StatBuilder(DefaultHealth), attack |-> StatBuilder(DefaultAttack)]

\* SpriteBuilder::with_health
WithHealth(b, species, health) ==
    [b EXCEPT !.health = ForSpecies(@, species, health)]

\* SpriteBuilder::with_attack
WithAttack(b, species, attack) ==
    [b EXCEPT !.attack = ForSpecies(@, species, attack)]

\* SpriteBuilder::build; sid is the auxiliary name of the sprite
SpriteBuilderBuild(b, sid, species) ==
    Sprite(sid, species, StatGet(b.health, species), StatGet(b.attack, species))

\* str::trim on a line: the spaces at both ends are dropped
RECURSIVE TrimStart(_)
TrimStart(line) ==
    IF line # <<>> /\ Head(line) = " " THEN TrimStart(Tail(line)) ELSE line

RECURSIVE TrimEnd(_)
TrimEnd(line) ==
    IF line # <<>> /\ line[Len(line)] = " "
    THEN TrimEnd(SubSeq(line, 1, Len(line) - 1))
    ELSE line

Trim(line) == TrimEnd(TrimStart(line))

\* A variant of the parse of a tile: any other character is a wall
TileFromStrLenient(c) ==
    IF c = "." THEN [ok |-> TRUE, tile |-> "Empty"] ELSE [ok |-> TRUE, tile |-> "Wall"]

\* impl FromStr for Tile, on the string of one character
TileFromStr(c) ==
    CASE c = "." -> [ok |-> TRUE, tile |-> "Empty"]
      [] c = "#" -> [ok |-> TRUE, tile |-> "Wall"]
      [] OTHER -> [ok |-> FALSE, tile |-> "UnknownTile"]

\* impl FromStr for Species, on the string of one character
SpeciesFromStr(c) ==
    CASE c = "E" -> [ok |-> TRUE, species |-> "Elf"]
      [] c = "G" -> [ok |-> TRUE, species |-> "Goblin"]
      [] OTHER -> [ok |-> FALSE, species |-> "UnknownSpecies"]

\* impl FromStr for MapElement: a tile if the string parses as one, else a
\* sprite of the species parsed, else the error InvalidSprite
ElementFromStr(c) ==
    IF TileFromStr(c).ok
    THEN [ok |-> TRUE, sprite |-> FALSE, tile |-> TileFromStr(c).tile, species |-> "Elf"]
    ELSE IF SpeciesFromStr(c).ok
    THEN [ok |-> TRUE, sprite |-> TRUE, tile |-> "Empty",
          species |-> SpeciesFromStr(c).species]
    ELSE [ok |-> FALSE, sprite |-> FALSE, tile |-> "InvalidSprite", species |-> "Elf"]

\* Map::new, and what build returns: Ok(map) or Err(error)
NewMap == [ok |-> TRUE, error |-> "-", grid |-> {}, sprites |-> << >>]

\* A variant of the arm for a sprite: the point is not recorded as open
BuildSpriteOnly(b, m, point, species) ==
    [m EXCEPT !.sprites = Place(@, point,
                 SpriteBuilderBuild(b, Cardinality(DOMAIN m.sprites) + 1, species))]

\* MapBuilder::build, the arm for a sprite: the sprite is placed and the
\* point recorded as open ground
BuildSprite(b, m, point, species) ==
    [m EXCEPT !.sprites = Place(@, point,
                 SpriteBuilderBuild(b, Cardinality(DOMAIN m.sprites) + 1, species)),
              !.grid = GridInsert(@, point, "Empty")]

\* MapBuilder::build, the body of the inner loop for a character parsed
BuildElement(b, m, point, e) ==
    IF ~e.ok THEN [m EXCEPT !.ok = FALSE, !.error = e.tile]
    ELSE IF e.sprite THEN BuildSprite(b, m, point, e.species)
    ELSE [m EXCEPT !.grid = GridInsert(@, point, e.tile)]

\* MapBuilder::build, the inner loop from the character x of the line y
RECURSIVE BuildChars(_, _, _, _, _)
BuildChars(b, m, chars, x, y) ==
    IF chars = <<>> \/ ~m.ok THEN m
    ELSE BuildChars(b, BuildElement(b, m, Point(x, y), ElementFromStr(Head(chars))),
                    Tail(chars), x + 1, y)

\* MapBuilder::build, the outer loop from the line y: blank lines are
\* skipped and counted
RECURSIVE BuildLines(_, _, _, _)
BuildLines(b, m, lines, y) ==
    IF lines = <<>> \/ ~m.ok THEN m
    ELSE BuildLines(b, BuildChars(b, m, Trim(Head(lines)), 0, y), Tail(lines), y + 1)

\* MapBuilder::build
MapBuild(b, text) == BuildLines(b, NewMap, text, 0)

\* BoundingBox::empty
BBoxEmpty ==
    [left |-> PositionMax, right |-> PositionMin,
     top |-> PositionMax, bottom |-> PositionMin]

\* The least and the greatest of a set of positions and a first value
Least(S, first) == CHOOSE v \in S \cup {first} : \A w \in S \cup {first} : v <= w
Greatest(S, first) == CHOOSE v \in S \cup {first} : \A w \in S \cup {first} : v >= w

\* BoundingBox::include, for every point of a set, from the empty box:
\* Grid::bbox, Sprites::bbox
BBoxOf(points) ==
    [left |-> Least({q.x : q \in points}, BBoxEmpty.left),
     right |-> Greatest({q.x : q \in points}, BBoxEmpty.right),
     top |-> Least({q.y : q \in points}, BBoxEmpty.top),
     bottom |-> Greatest({q.y : q \in points}, BBoxEmpty.bottom)]

\* BoundingBox::union
BBoxUnion(a, o) ==
    [left |-> IF a.left > o.left THEN o.left ELSE a.left,
     right |-> IF a.right > o.right THEN a.right ELSE o.right,
     top |-> IF a.top > o.top THEN o.top ELSE a.top,
     bottom |-> IF a.bottom > o.bottom THEN a.bottom ELSE o.bottom]

\* A variant of BoundingBox::margin: no margin
BBoxNoMargin(a, size) == a

\* BoundingBox::margin
BBoxMargin(a, size) ==
    [left |-> a.left - size, right |-> a.right + size,
     top |-> a.top - size, bottom |-> a.bottom + size]

\* Map::bbox
MapBBox(m) == BBoxUnion(BBoxOf(m.grid), BBoxOf(DOMAIN m.sprites))

\* impl Display for Species, impl Display for Tile
SpeciesGlyph(species) == IF species = "Elf" THEN "E" ELSE "G"
TileGlyph(tile) == IF tile = "Empty" THEN "." ELSE "#"

\* impl Display for Map, the character written for a point
PointGlyph(m, point) ==
    IF point \in DOMAIN m.sprites THEN SpeciesGlyph(m.sprites[point].species)
    ELSE TileGlyph(GridGet(m.grid, point))

\* The number of positions of the range from..=to, none if to < from
RangeLen(from, to) == IF to < from THEN 0 ELSE to - from + 1

\* impl Display for Map, the rows and columns of a bounding box: the lines
\* written, each ended by a newline
Rendered(m, box) ==
    [j \in 1..RangeLen(box.top, box.bottom) |->
        [i \in 1..RangeLen(box.left, box.right) |->
            PointGlyph(m, Point(box.left + i - 1, box.top + j - 1))]]

\* impl Display for Map
MapToString(m) == Rendered(m, BBoxMargin(MapBBox(m), 1))

\* map_ascii_trim: the lines trimmed, the blank ones dropped
RECURSIVE MapAsciiTrim(_)
MapAsciiTrim(text) ==
    IF text = <<>> THEN <<>>
    ELSE IF Trim(Head(text)) = <<>> THEN MapAsciiTrim(Tail(text))
    ELSE <<Trim(Head(text))>> \o MapAsciiTrim(Tail(text))

\* The characters of the texts: the four of the map, a space, and "?" for
\* any other character
TextChars == {".", "#", "E", "G", " ", "?"}

\* The lines of at most w characters, the texts of at most h such lines
LinesOf(chars, w) == UNION {[1..n -> chars] : n \in 0..w}
TextsOf(chars, w, h) == UNION {[1..n -> LinesOf(chars, w)] : n \in 0..h}

\* The state outside of a call of build
BuildIdle ==
    /\ grid = {}
    /\ sprites = << >>
    /\ pathfinders = NewPathfinders
    /\ queue = {}
    /\ outcome = NoAction
    /\ round = 0
    /\ result = [kind |-> "Running"]
    /\ acted = <<>>
    /\ popped = <<>>
    /\ census = [placed |-> 0, deaths |-> 0]
    /\ observed = NotObserved
    /\ display = "open"
    /\ link = NewLink
    /\ views = NoViews

\* A text of at most TextLines lines of at most TextWidth characters is
\* given to the builder with default stats
BuildInit ==
    /\ BuildIdle
    /\ pc = "build"
    /\ \E text \in TextsOf(TextChars, TextWidth, TextLines) :
          turn = [kind |-> "text", text |-> text]

\* The record of a call of build: the text, what build returned and, for a
\* map built, what Display writes for it
BuildRecord(text, m) ==
    [kind |-> "build", text |-> text, ret |-> m,
     shown |-> IF m.ok THEN MapToString(m) ELSE <<>>]

\* MapBuilder::default().build(text), and to_string() of the map built
BuildCall ==
    /\ pc = "build"
    /\ pc' = "built"
    /\ turn' = BuildRecord(turn.text, MapBuild(DefaultSpriteBuilder, turn.text))
    /\ UNCHANGED <<grid, sprites, pathfinders, queue, outcome, round, result, acted,
                   popped, census, observed, display, link, views>>

SpecBuild == BuildInit /\ [][BuildCall]_vars

\* The text of a map walled all around: a row of walls, the rows of the
\* inside between two walls, a row of walls
Walled(inside) ==
    LET w == Len(inside[1])
        walls == [i \in 1..(w + 2) |-> "#"]
    IN <<walls>> \o [j \in 1..Len(inside) |-> <<"#">> \o inside[j] \o <<"#">>]
       \o <<walls>>

\* The text of a walled map whose inside is of RenderY rows of RenderX
\* characters of the map is given to the builder with default stats
RenderInit ==
    /\ BuildIdle
    /\ pc = "build"
    /\ \E inside \in [1..RenderY -> [1..RenderX -> {".", "#", "E", "G"}]] :
          turn = [kind |-> "text", text |-> Walled(inside)]

SpecRender == RenderInit /\ [][BuildCall]_vars

\* Game::new on the map built from the text of a walled map of at most
\* MaxSprites sprites, by a builder with the attack power 1 and the hit
\* points h registered for both species
BuiltGame(m) ==
    /\ m.ok
    /\ Cardinality(DOMAIN m.sprites) <= MaxSprites
    /\ grid = m.grid
    /\ sprites = m.sprites
    /\ census = [placed |-> Cardinality(DOMAIN m.sprites), deaths |-> 0]
    /\ pathfinders = NewPathfinders
    /\ queue = {}
    /\ outcome = NoAction
    /\ round = 0
    /\ pc = "run"
    /\ result = [kind |-> "Running"]
    /\ turn = NoTurn
    /\ acted = <<>>
    /\ popped = <<>>
    /\ observed = NotObserved
    /\ display = "open"
    /\ link = NewLink
    /\ views = NoViews

\* The builder with the stat registered for both species
BuilderOf(h, a) ==
    WithAttack(WithAttack(WithHealth(WithHealth(DefaultSpriteBuilder, "Elf", h),
                                     "Goblin", h), "Elf", a), "Goblin", a)

BuiltInit ==
    \E inside \in [1..RenderY -> [1..RenderX -> {".", "#", "E", "G"}]] :
    \E h \in 1..MaxHP :
        BuiltGame(MapBuild(BuilderOf(h, 1), Walled(inside)))

SpecBuilt == BuiltInit /\ [][Next]_vars

\* SpriteBuilder::default(); auxiliary: the stat last registered for each
\* species, 0 if none
BuilderInit ==
    /\ BuildIdle
    /\ pc = "builder"
    /\ turn = [kind |-> "default", builder |-> DefaultSpriteBuilder,
               stat |-> "-", species |-> "-",
               health |-> [s \in Species |-> 0], attack |-> [s \in Species |-> 0]]

\* SpriteBuilder::with_health(species, health)
WithHealthCall(species, health) ==
    /\ pc = "builder"
    /\ turn' = [turn EXCEPT !.kind = "with", !.stat = "health", !.species = species,
                            !.builder = WithHealth(@, species, health),
                            !.health = [@ EXCEPT ![species] = health]]
    /\ UNCHANGED <<grid, sprites, pathfinders, queue, outcome, round, pc, result,
                   acted, popped, census, observed, display, link, views>>

\* SpriteBuilder::with_attack(species, attack)
WithAttackCall(species, attack) ==
    /\ pc = "builder"
    /\ turn' = [turn EXCEPT !.kind = "with", !.stat = "attack", !.species = species,
                            !.builder = WithAttack(@, species, attack),
                            !.attack = [@ EXCEPT ![species] = attack]]
    /\ UNCHANGED <<grid, sprites, pathfinders, queue, outcome, round, pc, result,
                   acted, popped, census, observed, display, link, views>>

BuilderNext ==
    \E species \in Species : \E stat \in 1..MaxStat :
        WithHealthCall(species, stat) \/ WithAttackCall(species, stat)

SpecBuilder == BuilderInit /\ [][BuilderNext]_vars

\* The map of the official example battle: the text that tests::combat and
\* CombatExample read from the examples directory
ExampleText ==
    << <<"#", "#", "#", "#", "#", "#", "#">>,
       <<"#", ".", "G", ".", ".", ".", "#">>,
       <<"#", ".", ".", ".", "E", "G", "#">>,
       <<"#", ".", "#", ".", "#", "G", "#">>,
       <<"#", ".", ".", "G", "#", "E", "#">>,
       <<"#", ".", ".", ".", ".", ".", "#">>,
       <<"#", "#", "#", "#", "#", "#", "#">> >>

\* The map of the example built with default stats
ExampleMap == MapBuild(DefaultSpriteBuilder, ExampleText)

\* CombatExample::check: Game::new on the map of the example
ExampleInit ==
    /\ grid = ExampleMap.grid
    /\ sprites = ExampleMap.sprites
    /\ census = [placed |-> Cardinality(DOMAIN ExampleMap.sprites), deaths |-> 0]
    /\ pathfinders = NewPathfinders
    /\ queue = {}
    /\ outcome = NoAction
    /\ round = 0
    /\ pc = "run"
    /\ result = [kind |-> "Running"]
    /\ turn = NoTurn
    /\ acted = <<>>
    /\ popped = <<>>
    /\ observed = NotObserved
    /\ display = "open"
    /\ link = NewLink
    /\ views = NoViews

\* Game::run, its rounds counted up to ExampleRounds
ExampleNext == RunRoundUpTo(ExampleRounds) \/ Tick \/ PlayEnd

SpecExample == ExampleInit /\ [][ExampleNext]_vars

\* Grid::new; auxiliary: the tile last inserted at each point, "-" if none
GridInit ==
    /\ BuildIdle
    /\ pc = "grid"
    /\ turn = [kind |-> "new", point |-> Point(0, 0), tile |-> "-",
               last |-> [q \in Rect(MaxX, MaxY) |-> "-"]]

\* Grid::insert(point, tile)
GridInsertCall(point, tile) ==
    /\ pc = "grid"
    /\ grid' = GridInsert(grid, point, tile)
    /\ turn' = [kind |-> "insert", point |-> point, tile |-> tile,
                last |-> [turn.last EXCEPT ![point] = tile]]
    /\ UNCHANGED <<sprites, pathfinders, queue, outcome, round, pc, result, acted,
                   popped, census, observed, display, link, views>>

GridNext ==
    \E point \in Rect(MaxX, MaxY) : \E tile \in {"Empty", "Wall"} :
        GridInsertCall(point, tile)

SpecGrid == GridInit /\ [][GridNext]_vars

\* ------------------------------------------------------------------------
\* Properties
\* ------------------------------------------------------------------------
\* p is strictly before q in reading order: top row first, then leftmost
Before(p, q) == p.y < q.y \/ (p.y = q.y /\ p.x < q.x)

\* C1: within one round no sprite takes more than one turn: the sprites that
\* performed the move-then-attack step this round are pairwise different.
C1_OneTurnPerRound ==
    \A i, j \in 1..Len(acted) : i # j => acted[i] # acted[j]

\* C2: in every round the positions are popped in reading order: each popped
\* position is strictly before every position popped after it and before
\* every position still queued.
C2_PoppedInReadingOrder ==
    \A i \in 1..Len(popped) :
        /\ \A j \in (i + 1)..Len(popped) : Before(popped[i], popped[j])
        /\ \A q \in queue : Before(popped[i], q)

\* C2 witness: a round in which three positions were popped, the first of
\* them left by its sprite.
C2_Witness ==
    /\ Len(popped) >= 3
    /\ popped[1] \notin DOMAIN sprites

\* The enemies of the sprite at location that stand one step from it
EnemiesInRange(location) ==
    {p \in DOMAIN sprites :
        /\ sprites[p].species # sprites[location].species
        /\ Abs(p.x - location.x) + Abs(p.y - location.y) = 1}

\* C3: Map::target(location) is None iff no sprite stands at location or no
\* enemy is one step away; otherwise it is an enemy one step away of lowest
\* hit points and, among those of lowest hit points, first in reading order.
C3_TargetLowestHealthReadingOrder ==
    \A location \in Rect(MaxX, MaxY) :
        LET t == Target(Map(grid, sprites), location)
        IN IF location \notin DOMAIN sprites \/ EnemiesInRange(location) = {}
           THEN t = None
           ELSE /\ t # None
                /\ Unwrap(t) \in EnemiesInRange(location)
                /\ \A e \in EnemiesInRange(location) \ t :
                      \/ sprites[Unwrap(t)].hit_points < sprites[e].hit_points
                      \/ /\ sprites[Unwrap(t)].hit_points = sprites[e].hit_points
                         /\ Before(Unwrap(t), e)

\* C3 witness: a sprite attacked with two enemies of equal hit points in
\* range before the blow.
C3_Witness ==
    /\ turn.kind = "turn"
    /\ turn.target # None
    /\ ~turn.died
    /\ \E a \in DOMAIN sprites :
         /\ Some(sprites[a].id) = turn.actor
         /\ \E e \in EnemiesInRange(a) \ turn.target :
               sprites[e].hit_points = sprites[Unwrap(turn.target)].hit_points + sprites[a].attack_power
\* p is open ground and holds no sprite
Free(p) == p \in grid /\ p \notin DOMAIN sprites

\* The free points one step from a point of ps
FreeAround(ps) ==
    {q \in grid : Free(q) /\ \E p \in ps : Abs(p.x - q.x) + Abs(p.y - q.y) = 1}

\* Walking from the points of ball (n steps walked so far) through free
\* points: the least number of steps after which a point of goal is reached,
\* and the points of goal reached with that number of steps
RECURSIVE Spread(_, _, _)
Spread(ball, goal, n) ==
    IF ball \cap goal # {}
    THEN [found |-> TRUE, distance |-> n, at |-> ball \cap goal]
    ELSE LET next == ball \cup FreeAround(ball)
         IN IF next = ball
            THEN [found |-> FALSE, distance |-> 0, at |-> {}]
            ELSE Spread(next, goal, n + 1)

\* The free points one step from an enemy of the sprite at origin
TargetSquares(origin) ==
    {q \in grid :
        /\ Free(q)
        /\ \E e \in DOMAIN sprites :
              /\ sprites[e].species # sprites[origin].species
              /\ Abs(e.x - q.x) + Abs(e.y - q.y) = 1}

\* The nearest target squares of the sprite at origin
Nearest(origin) == Spread(FreeAround({origin}), TargetSquares(origin), 1)

\* The last call of find_path: its origin and the value it returned
Called == turn.kind = "find_path"
Origin == turn.location
Served == Unwrap(turn.lookup).served

C5_SomeIffReachableAtLeastDistance ==
    Called =>
        IF EnemiesInRange(Origin) # {} \/ ~Nearest(Origin).found
        THEN Served = None
        ELSE /\ Served # None
             /\ Unwrap(Served).destination \in Nearest(Origin).at
             /\ Unwrap(Served).distance = Nearest(Origin).distance

\* C5 witness: a path of three steps or more was returned although the
\* destination is fewer steps away in a straight walk (a detour).
C5_Witness ==
    /\ Called
    /\ Served # None
    /\ Unwrap(Served).distance >= 3
    /\ Unwrap(Served).distance >
         Abs(Unwrap(Served).destination.x - Origin.x)
         + Abs(Unwrap(Served).destination.y - Origin.y)

\* C5 witness of the other case: None for a sprite not in range of an enemy
\* while an enemy stands on the battlefield.
C5_WitnessNone ==
    /\ Called
    /\ Served = None
    /\ EnemiesInRange(Origin) = {}
    /\ \E e \in DOMAIN sprites : sprites[e].species # sprites[Origin].species

\* The position of direction d in the order Up, Left, Right, Down
DirectionRank(d) == CHOOSE i \in 1..4 : <<"Up", "Left", "Right", "Down">>[i] = d

\* The directions whose first step lies on a shortest walk from origin to
\* destination, distance steps long
ShortestFirstSteps(origin, destination, distance) ==
    {d \in {"Up", "Left", "Right", "Down"} :
        /\ Free(Step(origin, d))
        /\ LET w == Spread({Step(origin, d)}, {destination}, 0)
           IN w.found /\ w.distance = distance - 1}

\* C6: the direction returned lies on a shortest path to the returned
\* destination and is the first such direction in the order Up, Left, Right,
\* Down.
C6_DirectionFirstOnShortestPath ==
    (Called /\ Served # None) =>
        LET path == Unwrap(Served)
            good == ShortestFirstSteps(Origin, path.destination, path.distance)
        IN /\ path.direction \in good
           /\ \A d \in good : DirectionRank(path.direction) <= DirectionRank(d)

\* C6 witness: two directions lie on shortest paths to the destination.
C6_Witness ==
    /\ Called
    /\ Served # None
    /\ Cardinality(ShortestFirstSteps(Origin, Unwrap(Served).destination,
                                      Unwrap(Served).distance)) >= 2
    /\ Unwrap(Served).direction # "Up"

\* C8: every call of find_path on a fixed battlefield, the first and the
\* repeated ones served from the cache, returns what a new, empty Pathfinder
\* returns for that origin.
C8_CachedEqualsFresh ==
    Called => Served = CalculateShortestPath(Map(grid, sprites), Origin)

\* C8 witness: a path served from the cache.
C8_Witness ==
    /\ Called
    /\ Unwrap(turn.lookup).hit
    /\ Served # None
\* C7: throughout a game no pathfinder holds an entry that differs from a
\* fresh search on the current battlefield, so every lookup, served from the
\* cache or not, returns what a fresh search returns; a lookup that let the
\* sprite stay where it is was served None and a fresh search finds None.
C7_CacheNeverStale ==
    /\ \A s \in DOMAIN pathfinders :
         \A o \in DOMAIN pathfinders[s] :
            pathfinders[s][o] = CalculateShortestPath(Map(grid, sprites), o)
    /\ (turn.kind = "turn" /\ turn.lookup # None /\ turn.direction = None) =>
         /\ Unwrap(turn.lookup).served = None
         /\ CalculateShortestPath(Map(grid, sprites), turn.location) = None

\* C7 witness: a lookup served from the cache in a round after a sprite
\* moved or died.
C7_Witness ==
    /\ turn.kind = "turn"
    /\ turn.lookup # None
    /\ Unwrap(turn.lookup).hit
    /\ \/ census.deaths > 0
       \/ \E p \in DOMAIN sprites : sprites[p].id # Rank(p, DOMAIN sprites)

\* C9: a sprite with an enemy in range at the start of its turn does not
\* move in that turn: it is asked no direction and stands after the tick
\* where it was popped; and find_path returns None for every sprite that has
\* an enemy in range.
C9_InRangeDoesNotMove ==
    /\ (turn.kind = "turn" /\ turn.in_range) =>
         /\ turn.direction = None
         /\ turn.location \in DOMAIN sprites
         /\ Some(sprites[turn.location].id) = turn.actor
    /\ \A p \in DOMAIN sprites :
         EnemiesInRange(p) # {} =>
            FindPath(NewPathfinder, Map(grid, sprites), p).ret = None

\* C9 witness: a sprite in range at the start of its turn attacked without
\* moving, with a free square beside it.
C9_Witness ==
    /\ turn.kind = "turn"
    /\ turn.in_range
    /\ turn.target # None
    /\ FreeAround({turn.location}) # {}

\* C10: no move lands on a point that holds another sprite: the sprites on
\* the battlefield are the sprites placed less one per death, and no sprite
\* stands at two points.
C10_OneSpritePerPoint ==
    /\ Cardinality(DOMAIN sprites) = census.placed - census.deaths
    /\ \A p, q \in DOMAIN sprites : sprites[p].id = sprites[q].id => p = q
    /\ \A p \in DOMAIN sprites : sprites[p].id \in 1..census.placed

\* C10 witness: a sprite moved to a square beside a sprite of its own
\* species, after a death.
C10_Witness ==
    /\ turn.kind = "turn"
    /\ turn.direction # None
    /\ census.deaths > 0
    /\ \E p \in DOMAIN sprites :
         /\ Abs(p.x - Step(turn.location, Unwrap(turn.direction)).x)
            + Abs(p.y - Step(turn.location, Unwrap(turn.direction)).y) = 1
         /\ sprites[p].species = sprites[Step(turn.location, Unwrap(turn.direction))].species

\* The points of ss at which the sprite named id stands
At(ss, id) == {p \in DOMAIN ss : ss[p].id = id}

\* C11: in a turn, a sprite with no enemy one step away for which a path
\* exists ends the turn exactly one step away, in the first-step direction of
\* the path; a sprite in range or without a path stays where it is; every
\* other sprite keeps its position and species, and all but the sprite
\* attacked keep their hit points; the only sprite that may leave the
\* battlefield is the target killed in the attack phase.
C11_MoveOneStep ==
    [][(turn'.kind = "turn" /\ queue' # queue /\ turn'.location \in DOMAIN sprites) =>
        LET loc == turn'.location
            path == CalculateShortestPath(Map(grid, sprites), loc)
            dest == IF EnemiesInRange(loc) = {} /\ path # None
                    THEN Step(loc, Unwrap(path).direction) ELSE loc
        IN /\ At(sprites', sprites[loc].id) = {dest}
           /\ Abs(dest.x - loc.x) + Abs(dest.y - loc.y) <= 1
           /\ sprites'[dest] = sprites[loc]
           /\ \A p \in DOMAIN sprites \ {loc} :
                 \/ /\ At(sprites', sprites[p].id) = {}
                    /\ turn'.died
                    /\ turn'.target = Some(p)
                 \/ /\ At(sprites', sprites[p].id) = {p}
                    /\ sprites'[p].species = sprites[p].species
                    /\ Some(p) # turn'.target =>
                          sprites'[p].hit_points = sprites[p].hit_points
    ]_vars

\* C11 witness: a sprite moved and attacked nobody while two other sprites
\* stood on the battlefield.
C11_Witness ==
    /\ turn.kind = "turn"
    /\ turn.direction # None
    /\ turn.target = None
    /\ Cardinality(DOMAIN sprites) >= 3

\* The hit points after a step of the sprite named id: 0 once it has left
\* the battlefield
HealthOf(ss, id) ==
    IF At(ss, id) = {} THEN 0 ELSE ss[CHOOSE p \in At(ss, id) : TRUE].hit_points

\* The enemies of the sprite of species s that stand one step from point at
EnemiesAround(s, at) ==
    {p \in DOMAIN sprites :
        /\ sprites[p].species # s
        /\ Abs(p.x - at.x) + Abs(p.y - at.y) = 1}

\* C12: in a turn, if an enemy stands one step from the acting sprite where
\* it is after its move, exactly one sprite is wounded: the enemy in range of
\* lowest hit points, first in reading order among those, loses the
\* attacker's attack power, down to zero at most; the attacker and every
\* other sprite keep their hit points. With no enemy in range nobody is
\* wounded. The position after the move counts, so a sprite that moved into
\* range attacks in the same turn.
C12_AttackWoundsOnlyTarget ==
    [][(turn'.kind = "turn" /\ queue' # queue /\ turn'.location \in DOMAIN sprites) =>
        LET me == sprites[turn'.location]
            here == CHOOSE p \in At(sprites', me.id) : TRUE
            adj == EnemiesAround(me.species, here)
        IN /\ At(sprites', me.id) # {}
           /\ IF adj = {}
              THEN \A p \in DOMAIN sprites :
                      HealthOf(sprites', sprites[p].id) = sprites[p].hit_points
              ELSE LET t == CHOOSE e \in adj : \A o \in adj \ {e} :
                                \/ sprites[e].hit_points < sprites[o].hit_points
                                \/ /\ sprites[e].hit_points = sprites[o].hit_points
                                   /\ Before(e, o)
                   IN /\ sprites[t].species # me.species
                      /\ HealthOf(sprites', sprites[t].id) =
                            IF sprites[t].hit_points > me.attack_power
                            THEN sprites[t].hit_points - me.attack_power ELSE 0
                      /\ HealthOf(sprites', sprites[t].id) < sprites[t].hit_points
                      /\ \A p \in DOMAIN sprites \ {t} :
                            HealthOf(sprites', sprites[p].id) = sprites[p].hit_points
    ]_vars

\* C12 witness: a sprite moved into range and wounded, without killing it,
\* an enemy in the same turn, another enemy standing elsewhere.
C12_Witness ==
    /\ turn.kind = "turn"
    /\ turn.direction # None
    /\ turn.target # None
    /\ ~turn.died
    /\ Cardinality(DOMAIN sprites) >= 3

\* C13: between turns every sprite on the battlefield has at least 1 hit
\* point: the attack that brings a sprite to 0 removes it.
C13_NoCorpseOnBattlefield ==
    \A p \in DOMAIN sprites : sprites[p].hit_points >= 1

\* C13 witness: the last turn killed its target, which is gone from the
\* point it stood on, and a sprite below full hit points is still on the
\* battlefield.
C13_Witness ==
    /\ turn.kind = "turn"
    /\ turn.died
    /\ Unwrap(turn.target) \notin DOMAIN sprites
    /\ \E p \in DOMAIN sprites : sprites[p].hit_points < MaxHP

\* C14: wound(a) leaves max(hit_points - a, 0) hit points, never fewer than
\* zero, and returns Dead exactly when that is 0 and Alive of that otherwise.
C14_WoundSaturates ==
    turn.kind = "wound" =>
        LET was == turn.before.hit_points
            now == sprites[Point(0, 0)].hit_points
        IN /\ now = IF was - turn.attack > 0 THEN was - turn.attack ELSE 0
           /\ now >= 0
           /\ turn.status.alive <=> now # 0
           /\ turn.status.alive => turn.status.health = now
           /\ sprites[Point(0, 0)] = [turn.before EXCEPT !.hit_points = now]

\* C14 witness: a sprite of 2 hit points wounded with power 5 has 0 hit
\* points and is reported dead.
C14_Witness ==
    /\ turn.kind = "wound"
    /\ turn.before.hit_points = 2
    /\ turn.attack = 5
    /\ sprites[Point(0, 0)].hit_points = 0
    /\ ~turn.status.alive

\* C14 witness: a sprite of 5 hit points wounded with power 3 is reported
\* alive with 2.
C14_WitnessAlive ==
    /\ turn.kind = "wound"
    /\ turn.before.hit_points = 5
    /\ turn.attack = 3
    /\ turn.status = [alive |-> TRUE, health |-> 2, species |-> turn.before.species]

\* The sum of the hit points of the sprites named in ids
RECURSIVE HealthSum(_)
HealthSum(ids) ==
    IF ids = {} THEN 0
    ELSE LET i == CHOOSE j \in ids : TRUE
         IN HealthOf(sprites, i) + HealthSum(ids \ {i})

\* C15: when run ends in round r with a victory, rounds is r - 1 if the
\* victory was found by a tick while positions were still queued (mid-round)
\* and r if it was found once the queue had drained, and score is rounds
\* times the sum of the hit points of the sprites left.
C15_ScoreCompletedRounds ==
    result.kind = "Complete" =>
        LET completed == IF queue # {} THEN round - 1 ELSE round
        IN /\ outcome.kind = IF queue # {} THEN "MidRoundVictory" ELSE "Victory"
           /\ result.rounds = completed
           /\ result.score = completed * HealthSum({sprites[p].id : p \in DOMAIN sprites})

\* C15 witness: a mid-round victory in round 3, the survivors holding more
\* hit points than there are survivors.
C15_Witness ==
    /\ result.kind = "Complete"
    /\ queue # {}
    /\ round = 3
    /\ result.score > 2 * Cardinality(DOMAIN sprites)

\* C15 witness: a victory found after the queue drained, in round 2.
C15_WitnessDrained ==
    /\ result.kind = "Complete"
    /\ queue = {}
    /\ round = 2
    /\ result.score > 0

\* C16: run returns a completed outcome with victors S only when a sprite
\* is left and every sprite left is of species S.
C16_VictorsAloneRemain ==
    result.kind = "Complete" =>
        /\ DOMAIN sprites # {}
        /\ \A p \in DOMAIN sprites : sprites[p].species = result.victors

\* C16 witness: a victory of two survivors after the last enemy died.
C16_Witness ==
    /\ result.kind = "Complete"
    /\ census.deaths > 0
    /\ Cardinality(DOMAIN sprites) >= 2
    /\ turn.kind = "turn"
    /\ turn.died

\* The battlefield ss is won: a sprite is left and all are of one species
Won(ss) ==
    /\ DOMAIN ss # {}
    /\ \A p, q \in DOMAIN ss : ss[p].species = ss[q].species

\* C17: when a round of run ends in which no sprite moved, was wounded or
\* died (the sprites are as the callback saw them at the start of the round)
\* on a battlefield that is not won, run returns the NoMovesRemain error and
\* starts no other round.
C17_NoMovesRemain ==
    [][(pc = "play" /\ pc' # "play" /\ sprites = observed.sprites /\ ~Won(sprites)) =>
        /\ pc' = "done"
        /\ result'.kind = "NoMovesRemain"
        /\ round' = round
    ]_vars

\* C17 witness: NoMovesRemain in a later round than the first, after a
\* death, enemies still on the battlefield.
C17_Witness ==
    /\ result.kind = "NoMovesRemain"
    /\ round >= 2
    /\ census.deaths > 0
    /\ sprites = observed.sprites
    /\ ~Won(sprites)

\* Every step of Game::run is a step of Advance that changes progress, so
\* fairness of Advance is fairness of Game::run.
AdvanceShadowsNext == [][Advance /\ progress' # progress]_vars

\* C18: run eventually returns: unless the callback fails, which returns
\* the Interrupted error at once, it reaches a completed outcome (a victory)
\* or the NoMovesRemain error after finitely many rounds.
C18_RunReturns ==
    <>(result.kind \in {"Complete", "NoMovesRemain", "Interrupted"})

\* C18 witness: run returned a victory in its fourth round, the callback
\* having returned Ok four times.
C18_Witness ==
    /\ pc = "done"
    /\ result.kind = "Complete"
    /\ round = 4
    /\ observed.calls = 4

\* C19: the callback is called exactly once per round, with the round
\* numbers 1, 2, 3, ... in order and without gaps, before any sprite of the
\* round acts, and it is handed the battlefield as it stands at the start of
\* the round: the calls made and the last number handed over always equal
\* the round number; the step that starts a round is the step that calls,
\* with the number of the new round and the sprites of that moment, no
\* sprite having acted; no other step calls.
C19_CallbackOncePerRound ==
    /\ [](observed.calls = round /\ observed.round = round)
    /\ [][round' # round =>
            /\ round' = round + 1
            /\ observed'.calls = observed.calls + 1
            /\ observed'.round = round'
            /\ observed'.sprites = sprites
            /\ sprites' = sprites
            /\ pc' = "play" => (acted' = <<>> /\ popped' = <<>>)]_vars
    /\ [][round' = round => observed' = observed]_vars

\* C19 witness: in the third round, after three calls, a sprite has acted
\* and the battlefield is no longer as the callback saw it.
C19_Witness ==
    /\ pc = "play"
    /\ observed.calls = 3
    /\ observed.round = 3
    /\ acted # <<>>
    /\ observed.sprites # sprites

\* C20: once the display is closed the worker ignores the failed sends: the
\* run is not ended by the Interrupted error and the worker does not panic.
C20_SendFailureIgnored ==
    /\ result.kind # "Interrupted"
    /\ pc # "panicked"

\* C21: a poll of the display never blocks (in update a try_recv can always
\* be taken), it returns only with its channel drained and the view holding
\* the value sent last, and what is displayed never goes back: the ordinal
\* and the round of the map shown, and the round of the message shown, never
\* decrease, however sends and polls interleave.
C21_PollKeepsLatest ==
    /\ [](views.at \in {"message", "map"} => ENABLED DisplayNext)
    /\ [][views.at = "map" /\ views'.at = "idle"
            => /\ link.map = <<>>
               /\ views'.map.sent = link.sent
               /\ link.sent > 0 => views'.map.sprites = observed.sprites
                                   \/ views'.map.sprites = sprites]_vars
    /\ [][views.at = "message" /\ views'.at = "map" => link.message = <<>>]_vars
    /\ [][/\ views'.map.sent >= views.map.sent
          /\ views'.map.round >= views.map.round
          /\ views'.message[2] >= views.message[2]]_vars

\* C21 witness: the display fell behind: in a poll of the map view that has
\* already taken a snapshot, two more snapshots are queued.
C21_Witness ==
    /\ views.at = "map"
    /\ views.map.sent >= 1
    /\ Len(link.map) >= 2

\* Every step that changes where the worker is is a step of WorkerAdvance,
\* so fairness of WorkerAdvance is fairness of the worker thread.
WorkerAdvanceShadows == [][progress' # progress => WorkerAdvance]_vars

\* The display shows the battlefield the run ended in: the worker is done,
\* nothing is left in the map channel and the map view holds the last map
\* sent, which is the battlefield as it stands.
FinalShown ==
    /\ pc = "done"
    /\ link.map = <<>>
    /\ views.map.sent = link.sent
    /\ views.map.sprites = sprites

\* C22: the worker sends the battlefield at every round and once more after
\* the run: unless the display is closed, it comes to show the battlefield
\* the run ended in, and goes on showing it.
C22_FinalStateShown == <>[](display = "closed" \/ FinalShown)

\* C22 witness: the display, still open, shows the final battlefield of a
\* run of at least two rounds, which differs from the battlefield sent at
\* the last callback.
C22_Witness ==
    /\ display = "open"
    /\ FinalShown
    /\ round >= 2
    /\ views.map.sprites # observed.sprites

\* C24: Grid::get(p) is Empty exactly when the last insert at p was of Empty:
\* a point never inserted, or last inserted as Wall, is a Wall; and an insert
\* at a point leaves get unchanged at every other point.
C24_GridGetLastInsert ==
    /\ [](\A q \in Rect(MaxX, MaxY) :
             /\ GridGet(grid, q) = "Empty" <=> turn.last[q] = "Empty"
             /\ turn.last[q] \in {"-", "Wall"} => GridGet(grid, q) = "Wall")
    /\ [][\A q \in Rect(MaxX, MaxY) \ {turn'.point} :
             GridGet(grid', q) = GridGet(grid, q)]_vars

\* C24 witness: a point last inserted as Wall is a Wall, next to a point
\* last inserted as Empty, which is Empty, and a point never inserted.
C24_Witness ==
    /\ pc = "grid"
    /\ turn.kind = "insert"
    /\ turn.tile = "Wall"
    /\ turn.point = Point(1, 1)
    /\ turn.last[Point(0, 1)] = "Empty"
    /\ turn.last[Point(2, 1)] = "-"
    /\ GridGet(grid, Point(1, 1)) = "Wall"
    /\ GridGet(grid, Point(0, 1)) = "Empty"

\* The line lengths of the non-blank lines of a text, trimmed
LineLengths(text) ==
    {Len(Trim(text[k])) : k \in {n \in 1..Len(text) : Trim(text[n]) # <<>>}}

\* C25 (as claimed): build returns an error for every text whose non-blank
\* lines are not all of the same length.
C25_RaggedRejected ==
    turn.kind = "build" /\ Cardinality(LineLengths(turn.text)) > 1 => ~turn.ret.ok

\* C26: build returns an error, and no map, for every text with a character
\* other than ".", "#", "E", "G" inside a line (a space inside a line is
\* such a character), and a text of those four only is built with "." open
\* ground, "#" a wall, "E" an elf and "G" a goblin at the place of the
\* character.
C26_OtherCharactersRejected ==
    turn.kind = "build" =>
        LET text == turn.text
            bad == \E n \in 1..Len(text) : \E k \in 1..Len(Trim(text[n])) :
                       Trim(text[n])[k] \notin {".", "#", "E", "G"}
        IN /\ bad <=> ~turn.ret.ok
           /\ bad => turn.ret.error = "InvalidSprite"
           /\ ~bad =>
                \A n \in 1..Len(text) : \A k \in 1..Len(Trim(text[n])) :
                    LET c == Trim(text[n])[k]
                        q == Point(k - 1, n - 1)
                    IN /\ c = "." <=> (q \in turn.ret.grid /\ q \notin DOMAIN turn.ret.sprites)
                       /\ c = "#" <=> q \notin turn.ret.grid
                       /\ c = "E" <=> (q \in DOMAIN turn.ret.sprites
                                        /\ turn.ret.sprites[q].species = "Elf")
                       /\ c = "G" <=> (q \in DOMAIN turn.ret.sprites
                                        /\ turn.ret.sprites[q].species = "Goblin")

\* C26 witness: a text with another character after an elf is refused.
C26_Witness ==
    /\ turn.kind = "build"
    /\ turn.text = << <<"#", "E", "?">>, <<"#", ".", "G">> >>
    /\ ~turn.ret.ok

\* C26 witness: a text of the four characters is built.
C26_WitnessBuilt ==
    /\ turn.kind = "build"
    /\ turn.text = << <<"#", "E", ".">>, <<"G", ".", "#">> >>
    /\ turn.ret.ok
    /\ turn.ret.grid = {Point(1, 0), Point(2, 0), Point(0, 1), Point(1, 1)}
    /\ DOMAIN turn.ret.sprites = {Point(1, 0), Point(0, 1)}

\* C27 (as claimed): for every text that build accepts, what Display writes
\* for the map built is the text, both trimmed by map_ascii_trim.
C27_RenderReproducesText ==
    turn.kind = "build" /\ turn.ret.ok
        => MapAsciiTrim(turn.shown) = MapAsciiTrim(turn.text)

\* C23: every sprite stands on open ground at all times: on the map as
\* built from its text and after every turn, the grid reports Empty at the
\* position of every sprite.
C23_SpritesOnOpenGround ==
    \A q \in DOMAIN sprites : GridGet(grid, q) = "Empty"

\* C23 witness: on a built map with a wall inside, a sprite has stepped to a
\* point that was open ground in the text, and stands on open ground.
C23_Witness ==
    /\ pc = "play"
    /\ turn.kind = "turn"
    /\ turn.direction # None
    /\ \E q \in Rect(RenderX + 1, RenderY + 1) : q.x >= 1 /\ q.y >= 1 /\ q \notin grid
    /\ Step(turn.location, Unwrap(turn.direction)) \in DOMAIN sprites
    /\ GridGet(grid, Step(turn.location, Unwrap(turn.direction))) = "Empty"

\* C28: build(species) gives the sprite the hit points and the attack power
\* registered for its species, and 200 hit points and attack power 3 where
\* none is registered; registering a stat for a species changes neither what
\* is built for the other species nor the other stat of that species.
C28_BuilderStats ==
    /\ [](pc = "builder" =>
            \A s \in Species :
               LET built == SpriteBuilderBuild(turn.builder, 1, s)
               IN /\ built.species = s
                  /\ built.hit_points =
                        IF turn.health[s] = 0 THEN 200 ELSE turn.health[s]
                  /\ built.attack_power =
                        IF turn.attack[s] = 0 THEN 3 ELSE turn.attack[s])
    /\ [][pc = "builder" =>
            \A s \in Species :
               LET before == SpriteBuilderBuild(turn.builder, 1, s)
                   after == SpriteBuilderBuild(turn'.builder, 1, s)
               IN /\ s # turn'.species => after = before
                  /\ turn'.stat = "health" => after.attack_power = before.attack_power
                  /\ turn'.stat = "attack" => after.hit_points = before.hit_points]_vars

\* C28 witness: as in tests::builder, with an attack power registered for
\* the elves and hit points for the goblins, an elf is built with 200 hit
\* points and a goblin with attack power 3.
C28_Witness ==
    /\ pc = "builder"
    /\ turn.attack = [s \in Species |-> IF s = "Elf" THEN 2 ELSE 0]
    /\ turn.health = [s \in Species |-> IF s = "Goblin" THEN 1 ELSE 0]
    /\ SpriteBuilderBuild(turn.builder, 1, "Elf") = Sprite(1, "Elf", 200, 2)
    /\ SpriteBuilderBuild(turn.builder, 1, "Goblin") = Sprite(1, "Goblin", 1, 3)

\* C29: the replay of the official example battle with default stats, if
\* the callback never fails, ends with 47 completed rounds and the score
\* 27730, the goblins having won.
C29_ExampleScore ==
    pc = "done" /\ result.kind # "Interrupted"
        => result = GameComplete("Goblin", 47, 27730)

\* C29 witness: the replay has ended with a victory, 47 callbacks having
\* returned Ok and the hit points left summing to 590.
C29_Witness ==
    /\ pc = "done"
    /\ result.kind = "Complete"
    /\ observed.calls >= 47
    /\ Score(Map(grid, sprites)) = 590

\* C30 (as claimed): when run ends with a victory in a round in which every
\* sprite left has taken its turn, no position still queued holding a sprite,
\* rounds is the number of that round and the score is that number times
\* the hit points left.
C30_DeadPositionsCompleteRound ==
    /\ result.kind = "Complete"
    /\ \A q \in DOMAIN sprites : \E k \in 1..Len(acted) : acted[k] = sprites[q].id
    /\ queue \cap DOMAIN sprites = {}
    => /\ result.rounds = round
       /\ result.score = round * HealthSum({sprites[q].id : q \in DOMAIN sprites})

\* The tick about to pop a position that holds no sprite: the loop of
\* Round::play is running, nobody has won and the greatest queued position
\* is off the battlefield
PopsEmptyPosition ==
    /\ pc = "play"
    /\ queue # {}
    /\ ~IsFinished(outcome)
    /\ Victorious(sprites) = None
    /\ HeapPop(queue) \notin DOMAIN sprites

\* C31: a tick that pops a position holding no sprite (its sprite died
\* earlier in the round) changes nothing but the queue: no sprite moves or
\* is wounded, the pathfinders are neither asked nor cleared, no target is
\* struck and the round outcome keeps its value.
C31_EmptyPositionSkipped ==
    [][PopsEmptyPosition =>
          /\ sprites' = sprites
          /\ pathfinders' = pathfinders
          /\ outcome' = outcome
          /\ queue' = queue \ {HeapPop(queue)}
          /\ turn'.location = HeapPop(queue)
          /\ turn'.lookup = None
          /\ turn'.direction = None
          /\ turn'.target = None
          /\ ~turn'.died]_vars

\* C31 witness: a position whose sprite was killed earlier in the round has
\* just been popped while sprites of both species remain and a pathfinder
\* still holds an answer computed before the pop
C31_Witness ==
    /\ pc = "play"
    /\ turn.kind = "turn"
    /\ turn.actor = None
    /\ turn.location \notin DOMAIN sprites
    /\ census.deaths > 0
    /\ Victorious(sprites) = None
    /\ \E s \in DOMAIN pathfinders : DOMAIN pathfinders[s] # {}

\* A round of Game::run has ended without a victory: Round::play returned
\* one of the four unfinished outcomes and run matched on it
RoundEndedUnwon ==
    /\ round > 0
    /\ observed.round = round
    /\ \/ pc = "run"
       \/ pc = "done" /\ result.kind = "NoMovesRemain"

\* The sprites handed to the callback when the round started that are still
\* on the battlefield, as pairs of the position then and the position now
Survivors ==
    {<<p, q>> \in (DOMAIN observed.sprites) \X (DOMAIN sprites) :
        observed.sprites[p].id = sprites[q].id}

\* Events of the round read off the battlefield: a survivor stands elsewhere,
\* a sprite of the start of the round is gone, a survivor lost hit points
SurvivorMoved ==
    \E s \in Survivors : s[1] # s[2]
SpriteDied ==
    Cardinality(DOMAIN sprites) < Cardinality(DOMAIN observed.sprites)
SurvivorWounded ==
    \E s \in Survivors : sprites[s[2]].hit_points < observed.sprites[s[1]].hit_points

\* C32 (as claimed): the outcome of a round that does not end in victory is
\* the highest event of the round in the order NoAction < CombatOnly <
\* Casualty < Movement: Movement if a sprite moved, otherwise Casualty if one
\* died, otherwise CombatOnly if one was wounded, otherwise NoAction.
C32_OutcomeIsHighestEvent ==
    RoundEndedUnwon =>
        IF SurvivorMoved THEN outcome.kind = "Movement"
        ELSE IF SpriteDied THEN outcome.kind \in {"Casualty", "Movement"}
        ELSE IF SurvivorWounded THEN outcome.kind = "CombatOnly"
        ELSE outcome.kind = "NoAction"

\* C33: Game::run returns NoMovesRemain only at the end of a round in which
\* no sprite changed position, lost hit points or died (the sprites are
\* exactly those the callback saw at the start of the round, each of which
\* was given its turn), and never on a battlefield that is already won.
C33_NoMovesRemainOnlyWhenIdle ==
    result.kind = "NoMovesRemain" =>
        /\ pc = "done"
        /\ round >= 1
        /\ observed.round = round
        /\ sprites = observed.sprites
        /\ ~Won(sprites)
        /\ queue = {}
        /\ \A p \in DOMAIN sprites : \E k \in 1..Len(acted) : acted[k] = sprites[p].id
        /\ \A k \in 1..Len(popped) : popped[k] \in DOMAIN sprites

\* C33 witness: NoMovesRemain in the first round with an elf and a goblin on
\* the battlefield, both of which have had their turn and found no path.
C33_Witness ==
    /\ result.kind = "NoMovesRemain"
    /\ round = 1
    /\ Len(acted) >= 2
    /\ \E p, q \in DOMAIN sprites : SpeciesIsEnemy(sprites[p].species, sprites[q].species)
    /\ turn.lookup # None
    /\ turn.direction = None

\* Both species have a sprite on the battlefield
BothSpeciesRemain ==
    \E p, q \in DOMAIN sprites : SpeciesIsEnemy(sprites[p].species, sprites[q].species)

C36_InterruptedAtOnce ==
    result.kind = "Interrupted" =>
        /\ pc = "done"
        /\ observed.calls = round
        /\ observed.round = round
        /\ sprites = observed.sprites
        /\ round > 1 => queue = {} /\ outcome.kind \in {"CombatOnly", "Casualty", "Movement"}
        /\ round = 1 => queue = {} /\ outcome = NoAction /\ popped = <<>>
        /\ ~ENABLED Next

\* C36 witness: run interrupted at the start of a round after the first,
\* sprites of both species on a battlefield where a sprite has died and the
\* last turn of the round before moved a sprite.
C36_Witness ==
    /\ result.kind = "Interrupted"
    /\ round >= 2
    /\ census.deaths > 0
    /\ BothSpeciesRemain
    /\ turn.kind = "turn"
    /\ turn.direction # None

\* ------------------------------------------------------------------------
\* The enumerations of the hash collections
\* ------------------------------------------------------------------------
\* HashMap::iter / keys / values, HashSet::iter: the elements of S once each,
\* in an order the program does not control
RECURSIVE Orders(_)
Orders(S) ==
    IF S = {} THEN {<<>>}
    ELSE UNION {{Append(o, e) : o \in Orders(S \ {e})} : e \in S}

\* One step of the stable sort: e is put behind every element that is not
\* greater than it
RECURSIVE InsertStable(_, _, _)
InsertStable(map, sorted, e) ==
    IF sorted = <<>> THEN <<e>>
    ELSE IF TargetCmp(map, e, Head(sorted)) = "Less" THEN <<e>> \o sorted
    ELSE <<Head(sorted)>> \o InsertStable(map, Tail(sorted), e)

\* A variant of Map::target: the targets are left in the order found
SortByNothing(map, targets) == targets

\* targets.sort_by(..) of Map::target: a stable sort
RECURSIVE SortBy(_, _)
SortBy(map, targets) ==
    IF targets = <<>> THEN <<>>
    ELSE InsertStable(map, SortBy(map, SubSeq(targets, 1, Len(targets) - 1)),
                      targets[Len(targets)])

\* The loop of Map::target over self.sprites.iter() in the order given: the
\* enemies at distance 1 pushed in that order
TargetsFound(map, location, order) ==
    SelectSeq(order, LAMBDA t : /\ IsEnemy(map.sprites[location], map.sprites[t])
                                /\ Distance(t, location) = 1)

\* targets.get(0).map(|(&p, _)| p) of Map::target
TargetFirst(sorted) ==
    IF sorted = <<>> THEN None ELSE Some(sorted[1])

\* Map::target when self.sprites.iter() yields the sprites in the order given
TargetIn(map, location, order) ==
    IF location \notin DOMAIN map.sprites THEN None
    ELSE TargetFirst(SortBy(map, TargetsFound(map, location, order)))

\* Map::target_points when self.sprites.iter() yields the sprites in the
\* order given: the free neighbours of each enemy inserted in turn
RECURSIVE TargetPointsIn(_, _, _)
TargetPointsIn(map, species, order) ==
    IF order = <<>> THEN {}
    ELSE TargetPointsIn(map, species, SubSeq(order, 1, Len(order) - 1)) \cup
         (IF SpeciesIsEnemy(species, map.sprites[order[Len(order)]].species)
          THEN {n \in Adjacent(order[Len(order)]) : ElementIsEmpty(Element(map, n))}
          ELSE {})

\* BinaryHeap<QPoint> collected from the positions in the order given, then
\* pop: a greatest element, the later one of two that compare equal
RECURSIVE PopIn(_)
PopIn(order) ==
    IF Len(order) = 1 THEN order[1]
    ELSE IF QPointCmp(order[Len(order)], PopIn(SubSeq(order, 1, Len(order) - 1))) = "Less"
         THEN PopIn(SubSeq(order, 1, Len(order) - 1))
         ELSE order[Len(order)]

\* Sprites::peek when self.positions() yields the positions in the order
\* given: the sprite at a greatest position of the BinaryHeap<Point>
RECURSIVE PeekAt(_)
PeekAt(order) ==
    IF Len(order) = 1 THEN order[1]
    ELSE IF ReadingOrder(order[Len(order)], PeekAt(SubSeq(order, 1, Len(order) - 1))) = "Less"
         THEN PeekAt(SubSeq(order, 1, Len(order) - 1))
         ELSE order[Len(order)]

PeekIn(ss, order) ==
    IF order = <<>> THEN None ELSE Some(ss[PeekAt(order)])

\* Map::score when self.sprites.sprites() yields the sprites in the order
\* given
RECURSIVE ScoreIn(_, _)
ScoreIn(map, order) ==
    IF order = <<>> THEN 0
    ELSE ScoreIn(map, SubSeq(order, 1, Len(order) - 1))
         + map.sprites[order[Len(order)]].hit_points

\* C37: the simulation does not depend on the iteration order of the hash
\* collections: on every battlefield a game passes through, whatever the
\* order in which the sprites, the positions and the queued positions are
\* enumerated, Map::target, Map::target_points, Sprites::peek, Map::score
\* and the pop of the queue give the one value the deterministic step of the
\* game uses, so two runs from the same battlefield make the same steps and
\* return the same rounds, victors and score.
C37_IterationOrderIrrelevant ==
    /\ \A location \in DOMAIN sprites :
          {TargetIn(Map(grid, sprites), location, order) :
              order \in Orders(DOMAIN sprites)}
              = {Target(Map(grid, sprites), location)}
    /\ \A species \in Species :
          {TargetPointsIn(Map(grid, sprites), species, order) :
              order \in Orders(DOMAIN sprites)}
              = {TargetPoints(Map(grid, sprites), species)}
    /\ {PeekIn(sprites, order) : order \in Orders(DOMAIN sprites)} = {Peek(sprites)}
    /\ {ScoreIn(Map(grid, sprites), order) : order \in Orders(DOMAIN sprites)}
          = {Score(Map(grid, sprites))}
    /\ queue # {} => {PopIn(order) : order \in Orders(queue)} = {HeapPop(queue)}

\* C37 witness: in the middle of a round, after a sprite has moved, a sprite
\* whose turn is still to come has two enemies of equal hit points in range,
\* which two enumerations of the sprites find in different orders.
C37_Witness ==
    /\ pc = "play"
    /\ turn.kind = "turn"
    /\ turn.direction # None
    /\ \E location \in queue \cap DOMAIN sprites :
       \E a, b \in Orders(DOMAIN sprites) :
          /\ Len(TargetsFound(Map(grid, sprites), location, a)) >= 2
          /\ TargetsFound(Map(grid, sprites), location, a)[1]
                # TargetsFound(Map(grid, sprites), location, b)[1]
          /\ \A i \in 1..Len(TargetsFound(Map(grid, sprites), location, a)) :
                sprites[TargetsFound(Map(grid, sprites), location, a)[i]].hit_points
                    = sprites[Unwrap(Target(Map(grid, sprites), location))].hit_points

\* C38: in every step of run, play and tick the terrain grid stays as it is
\* and every sprite on the battlefield after the step was on it before the
\* step with the same species and attack power and at least as many hit
\* points: hit points never increase, and no sprite appears.
C38_SpritesOnlyWeaken ==
    [][/\ grid' = grid
       /\ \A q \in DOMAIN sprites' :
          \E p \in DOMAIN sprites :
             /\ sprites[p].id = sprites'[q].id
             /\ sprites[p].species = sprites'[q].species
             /\ sprites[p].attack_power = sprites'[q].attack_power
             /\ sprites'[q].hit_points <= sprites[p].hit_points
             /\ sprites'[q].hit_points > 0
       /\ \A p, q \in DOMAIN sprites' : sprites'[p].id = sprites'[q].id => p = q]_vars

\* C38 witness: in a round after the first, after a sprite has died, the
\* sprite just struck lives on with fewer hit points than a sprite is built
\* with.
C38_Witness ==
    /\ round >= 2
    /\ turn.kind = "turn"
    /\ turn.target # None
    /\ ~turn.died
    /\ census.deaths > 0
    /\ \E p \in DOMAIN sprites :
          /\ p = Unwrap(turn.target)
          /\ sprites[p].hit_points < MaxHP
====
